---- MODULE Spec2Model ----
(***************************************************************************)
(* Model of the wargon2-captcha server: the proof-of-work challenge store, *)
(* Service.GenerateChallenge, Handler.VerifyHandler / Service.VerifySolution*)
(* as interleaved sequences of store statements, and the cleanup routine.  *)
(*                                                                         *)
(* Text (Go strings, []byte) is a sequence of byte values 0..255, so the   *)
(* conversions of the code (hex, base64) are computed as the code computes *)
(* them.  Time is a clock counted in ticks of TickMinutes minutes.         *)
(***************************************************************************)
EXTENDS Integers, Sequences, FiniteSets, TLC

(***************************************************************************)
(* Bounds of the model.                                                    *)
(***************************************************************************)
\* the clock runs 0..MaxTime
MaxTime == 2
\* number of distinct challenge ids GenerateRandomBytes gives over a run
MaxChallengeIDs == 1
\* number of verify requests accepted over a run
MaxRequests == 2
\* number of distinct challenge ids over a run of the configuration study
MaxConfigChallengeIDs == 2

\* the handler goroutines that serve verify requests concurrently
Clients == {"h1", "h2"}

(***************************************************************************)
(* Text helpers.                                                           *)
(***************************************************************************)
\* strings.HasPrefix(s, prefix)
HasPrefix(s, prefix) ==
  /\ Len(prefix) <= Len(s)
  /\ \A i \in 1..Len(prefix) : s[i] = prefix[i]

\* one hex digit 0..15 as its lowercase ASCII character
HexDigit(d) == IF d < 10 THEN 48 + d ELSE 87 + d

\* hex.EncodeToString: two lowercase hex characters per byte
HexEncodeToString(bytes) ==
  [i \in 1..(2 * Len(bytes)) |->
     LET b == bytes[(i + 1) \div 2]
     IN  IF i % 2 = 1 THEN HexDigit(b \div 16) ELSE HexDigit(b % 16)]

\* the base64 standard alphabet: value 0..63 to its ASCII character
B64Char(v) ==
  IF v < 26 THEN 65 + v
  ELSE IF v < 52 THEN 97 + (v - 26)
  ELSE IF v < 62 THEN 48 + (v - 52)
  ELSE IF v = 62 THEN 43 ELSE 47

\* the inverse of the alphabet; -1 for a character outside it
B64Value(c) ==
  IF c >= 65 /\ c <= 90 THEN c - 65
  ELSE IF c >= 97 /\ c <= 122 THEN c - 97 + 26
  ELSE IF c >= 48 /\ c <= 57 THEN c - 48 + 52
  ELSE IF c = 43 THEN 62
  ELSE IF c = 47 THEN 63
  ELSE -1

\* base64.StdEncoding.EncodeToString: 3 bytes to 4 characters, '=' padding
Base64Encode(bytes) ==
  LET n == Len(bytes)
      At(k) == IF k <= n THEN bytes[k] ELSE 0
  IN  [j \in 1..(4 * ((n + 2) \div 3)) |->
         LET q  == (j - 1) \div 4
             r  == (j - 1) % 4
             b1 == At(3 * q + 1)
             b2 == At(3 * q + 2)
             b3 == At(3 * q + 3)
         IN  IF r = 0 THEN B64Char(b1 \div 4)
             ELSE IF r = 1 THEN B64Char((b1 % 4) * 16 + (b2 \div 16))
             ELSE IF r = 2 THEN
               IF 3 * q + 2 <= n THEN B64Char((b2 % 16) * 4 + (b3 \div 64)) ELSE 61
             ELSE
               IF 3 * q + 3 <= n THEN B64Char(b3 % 64) ELSE 61]

\* does base64.StdEncoding.DecodeString accept s: whole quanta of four
\* alphabet characters, padding only at the end of the last quantum; the
\* bits of the last character that no byte uses are not looked at.  (The
\* decoder skips line breaks; a text with one is never a whole number of
\* quanta here, since every text of the model differs from an encoder's
\* output in at most one place.)
Base64Ok(s) ==
  /\ Len(s) % 4 = 0
  /\ \A i \in 1..Len(s) :
       \/ B64Value(s[i]) >= 0
       \/ /\ s[i] = 61
          /\ i >= Len(s) - 1
          /\ i = Len(s) \/ s[Len(s)] = 61

\* base64.StdEncoding.DecodeString on an accepted string
Base64Decode(s) ==
  LET n   == Len(s)
      pad == IF n = 0 THEN 0
             ELSE IF s[n - 1] = 61 THEN 2
             ELSE IF s[n] = 61 THEN 1 ELSE 0
      V(k) == IF s[k] = 61 THEN 0 ELSE B64Value(s[k])
  IN  [i \in 1..(3 * (n \div 4) - pad) |->
         LET q == (i - 1) \div 3
             r == (i - 1) % 3
             a == V(4 * q + 1)
             b == V(4 * q + 2)
             c == V(4 * q + 3)
             d == V(4 * q + 4)
         IN  IF r = 0 THEN a * 4 + (b \div 16)
             ELSE IF r = 1 THEN (b % 16) * 16 + (c \div 4)
             ELSE (c % 4) * 64 + d]

\* a digest of the bytes lo..hi of a text that every byte and every
\* position enters, kept below 2^16
RECURSIVE MixRange(_, _, _)
MixRange(bytes, lo, hi) ==
  IF lo > hi THEN 1
  ELSE IF lo = hi THEN bytes[lo] + 1
  ELSE LET mid == (lo + hi) \div 2
       IN  (MixRange(bytes, lo, mid) * 31 + MixRange(bytes, mid + 1, hi) * 17
            + (hi - lo)) % 65536

ByteMix(bytes, acc) == (acc * 31 + MixRange(bytes, 1, Len(bytes))) % 65536

\* argon2.IDKey(password, salt, time, memory, threads, keyLen): keyLen bytes
\* that are a fixed function of all six arguments.  The digest itself is
\* the library's; the model keeps that it is deterministic and that every
\* argument enters it.
IDKey(password, salt, time, memory, threads, keyLen) ==
  LET seed == (ByteMix(password, 7) + 3 * ByteMix(salt, 11)
               + 5 * (time % 256) + 7 * (memory % 256)
               + 11 * threads + 13 * (keyLen % 256)) % 65536
  IN  [i \in 1..keyLen |-> ((seed + 3 * (i - 1)) * 61 + seed \div 256) % 256]

\* an ASCII decimal digit
IsDigit(c) == c >= 48 /\ c <= 57

\* the largest magnitude AtoiValue distinguishes; every range the
\* validators test lies below it
AtoiCap == 100000

\* the value of a run of decimal digits, saturating at AtoiCap
RECURSIVE DigitsValue(_, _)
DigitsValue(s, acc) ==
  IF Len(s) = 0 THEN acc
  ELSE DigitsValue(Tail(s),
         IF acc * 10 + (Head(s) - 48) > AtoiCap THEN AtoiCap
         ELSE acc * 10 + (Head(s) - 48))

\* the text after an optional leading sign
Unsigned(s) ==
  IF Len(s) > 0 /\ (s[1] = 45 \/ s[1] = 43) THEN Tail(s) ELSE s

\* strconv.Atoi succeeds: an optional sign and at least one digit
AtoiOk(s) ==
  /\ Len(Unsigned(s)) > 0
  /\ \A i \in 1..Len(Unsigned(s)) : IsDigit(Unsigned(s)[i])

\* strconv.Atoi on a text it accepts
AtoiValue(s) ==
  IF Len(s) > 0 /\ s[1] = 45 THEN 0 - DigitsValue(Unsigned(s), 0)
  ELSE DigitsValue(Unsigned(s), 0)

\* strconv.Itoa of a natural number
RECURSIVE ItoaNat(_)
ItoaNat(n) == IF n < 10 THEN << 48 + n >> ELSE Append(ItoaNat(n \div 10), 48 + (n % 10))

\* strconv.Itoa
Itoa(n) == IF n < 0 THEN << 45 >> \o ItoaNat(0 - n) ELSE ItoaNat(n)

\* Body at the value v, with v worked out once before Body is entered: the
\* sequencing of statements in the code
Once(v, Body(_)) == CHOOSE r \in { Body(x) : x \in { v } } : TRUE

\* is the byte at position i of s a UTF-8 continuation byte
IsCont(s, i) == i <= Len(s) /\ s[i] >= 128 /\ s[i] <= 191

\* utf8.DecodeRuneInString at position i of s: the width in bytes of the
\* encoding that starts there, 0 when the bytes there are no valid encoding
Utf8Size(s, i) ==
  LET b == s[i]
  IN  IF b < 128 THEN 1
      ELSE IF b >= 194 /\ b <= 223 /\ IsCont(s, i + 1) THEN 2
      ELSE IF /\ b = 224
              /\ IsCont(s, i + 1) /\ s[i + 1] >= 160
              /\ IsCont(s, i + 2) THEN 3
      ELSE IF /\ (b >= 225 /\ b <= 236) \/ b = 238 \/ b = 239
              /\ IsCont(s, i + 1)
              /\ IsCont(s, i + 2) THEN 3
      ELSE IF /\ b = 237
              /\ IsCont(s, i + 1) /\ s[i + 1] <= 159
              /\ IsCont(s, i + 2) THEN 3
      ELSE IF /\ b = 240
              /\ IsCont(s, i + 1) /\ s[i + 1] >= 144
              /\ IsCont(s, i + 2)
              /\ IsCont(s, i + 3) THEN 4
      ELSE IF /\ b >= 241 /\ b <= 243
              /\ IsCont(s, i + 1)
              /\ IsCont(s, i + 2)
              /\ IsCont(s, i + 3) THEN 4
      ELSE IF /\ b = 244
              /\ IsCont(s, i + 1) /\ s[i + 1] <= 143
              /\ IsCont(s, i + 2)
              /\ IsCont(s, i + 3) THEN 4
      ELSE 0

\* is the byte at position k of s, from position i on, inside the encoding
\* of a rune that starts before it
InsideRune(s, i, k) ==
  /\ IsCont(s, k)
  /\ \E p \in (k - 3)..(k - 1) : p >= i /\ s[p] >= 192 /\ Utf8Size(s, p) > k - p

\* the pieces 1..n of a sequence of texts, one after the other
RECURSIVE Flatten(_, _)
Flatten(pieces, n) ==
  IF n = 0 THEN <<>> ELSE Flatten(pieces, n - 1) \o pieces[n]

\* the UTF-8 encoding of U+FFFD, which stands for bytes that are no text
ReplacementChar == <<239, 191, 189>>

\* the UTF-8 encoding of the code point r: utf8.AppendRune
Utf8Encode(r) ==
  IF r < 128 THEN << r >>
  ELSE IF r < 2048 THEN << 192 + (r \div 64), 128 + (r % 64) >>
  ELSE IF r < 65536
  THEN << 224 + (r \div 4096), 128 + ((r \div 64) % 64), 128 + (r % 64) >>
  ELSE << 240 + (r \div 262144), 128 + ((r \div 4096) % 64),
          128 + ((r \div 64) % 64), 128 + (r % 64) >>

\* the value of a hex digit character, -1 for another character
HexValue(c) ==
  IF c >= 48 /\ c <= 57 THEN c - 48
  ELSE IF c >= 97 /\ c <= 102 THEN c - 87
  ELSE IF c >= 65 /\ c <= 70 THEN c - 55
  ELSE -1

\* ASCII lower case of a text
ToLower(s) == [i \in 1..Len(s) |-> IF s[i] >= 65 /\ s[i] <= 90 THEN s[i] + 32 ELSE s[i]]

(***************************************************************************)
(* Configuration (internal/config).                                        *)
(***************************************************************************)
\* minutes per tick of the model clock
TickMinutes == 24 * 60

\* uint8(x) of a Go int
Uint8(x) == x % 256

\* uint32(x) of a Go int.  A uint32 is held as the integer with the same
\* 32 bits read as two's complement: 0 .. 2^31-1 as themselves, 2^31 ..
\* 2^32-1 as the negative numbers, so the value is zero exactly when the
\* integer is 0 and fits a PostgreSQL INTEGER exactly when it is >= 0.
\* The integers an environment of the model gives lie within 32 bits, on
\* which the conversion keeps every bit.
Uint32(x) == x

\* getEnvInt: strconv.Atoi of the text of the environment when it is set,
\* non-empty and a number, else the default
getEnvInt(env, key, defaultValue) ==
  IF key \in DOMAIN env /\ env[key] # <<>> /\ AtoiOk(env[key])
  THEN AtoiValue(env[key])
  ELSE defaultValue

\* getEnvString: the text of the environment when set and non-empty
getEnvString(env, key, defaultValue) ==
  IF key \in DOMAIN env /\ env[key] # <<>> THEN env[key] ELSE defaultValue

\* config.Load: the fields of Config the service reads
Load(envInt, envStr) ==
  [ Argon2Time             |-> Uint32(getEnvInt(envInt, "ARGON2_TIME", 3)),
    Argon2Memory           |-> Uint32(getEnvInt(envInt, "ARGON2_MEMORY", 65536)),
    Argon2Threads          |-> Uint8(getEnvInt(envInt, "ARGON2_THREADS", 1)),
    Argon2KeyLength        |-> Uint32(getEnvInt(envInt, "ARGON2_KEY_LENGTH", 32)),
    Argon2SaltLength       |-> getEnvInt(envInt, "ARGON2_SALT_LENGTH", 16),
    Argon2TargetPrefix     |-> getEnvString(envStr, "ARGON2_TARGET_PREFIX", <<48, 48, 48>>),
    ChallengeExpiryMinutes |-> getEnvInt(envInt, "CHALLENGE_EXPIRY_MINUTES", 5) ]

\* the config.env files of the model: short keys and salts, a one-digit
\* target, expiry windows of one and two ticks
EnvInts ==
  { [ARGON2_KEY_LENGTH |-> <<49>>, ARGON2_SALT_LENGTH |-> <<49>>,
     ARGON2_TIME |-> <<49>>,
     CHALLENGE_EXPIRY_MINUTES |-> Itoa(TickMinutes)],
    [ARGON2_KEY_LENGTH |-> <<49>>, ARGON2_SALT_LENGTH |-> <<49>>,
     ARGON2_TIME |-> <<50>>, ARGON2_THREADS |-> <<50>>,
     CHALLENGE_EXPIRY_MINUTES |-> Itoa(2 * TickMinutes)] }

EnvStrs == { [ARGON2_TARGET_PREFIX |-> <<48>>] }

Configs == { Load(ei, es) : ei \in EnvInts, es \in EnvStrs }

\* config.env files an operator can write: cost parameters that are zero,
\* negative, beyond the width of their field ("256" for the uint8) or no
\* number ("abc"), and expiry windows of a day, of nothing and of minus a
\* day
EnvIntsWide ==
  { [ARGON2_TIME |-> time, ARGON2_THREADS |-> threads,
     ARGON2_KEY_LENGTH |-> keyLen, ARGON2_SALT_LENGTH |-> <<49>>,
     CHALLENGE_EXPIRY_MINUTES |-> expiry] :
      time    \in { <<49>>, <<48>>, <<45, 49>> },
      threads \in { <<49>>, <<50, 53, 54>>, <<45, 49>>, <<97, 98, 99>> },
      keyLen  \in { <<49>>, <<48>> },
      expiry  \in { Itoa(TickMinutes), <<48>>, Itoa(0 - TickMinutes) } }

ConfigsWide == { Load(ei, es) : ei \in EnvIntsWide, es \in EnvStrs }

(***************************************************************************)
(* Fingerprint validation (internal/fingerprint).                          *)
(***************************************************************************)
\* does text s hold the text w at position i
HoldsAt(s, w, i) ==
  /\ i >= 1
  /\ i + Len(w) - 1 <= Len(s)
  /\ \A k \in 1..Len(w) : s[i + k - 1] = w[k]

\* strings.Contains(s, w)
Contains(s, w) == \E i \in 1..(Len(s) + 1) : HoldsAt(s, w, i)

\* regexp `\d+\.\d+` matching at position i of s
VersionAt(s, i) ==
  \E k \in 1..Len(s) :
    /\ i + k + 1 <= Len(s)
    /\ \A j \in i..(i + k - 1) : IsDigit(s[j])
    /\ s[i + k] = 46
    /\ IsDigit(s[i + k + 1])

\* regexp.MatchString(product `/\d+\.\d+`, s); product ends with the slash
MatchProduct(product, s) ==
  \E i \in 1..Len(s) : HoldsAt(s, product, i) /\ VersionAt(s, i + Len(product))

\* the browser tokens of validateUserAgent, each with its slash:
\* Mozilla/ Chrome/ Safari/ Firefox/ Edge/
UserAgentProducts ==
  << <<77, 111, 122, 105, 108, 108, 97, 47>>,
     <<67, 104, 114, 111, 109, 101, 47>>,
     <<83, 97, 102, 97, 114, 105, 47>>,
     <<70, 105, 114, 101, 102, 111, 120, 47>>,
     <<69, 100, 103, 101, 47>> >>

\* the platform substrings of validatePlatform: Win32, MacIntel,
\* Linux x86_64, Linux i686, iPhone, iPad, Android, X11
ValidPlatforms ==
  << <<87, 105, 110, 51, 50>>,
     <<77, 97, 99, 73, 110, 116, 101, 108>>,
     <<76, 105, 110, 117, 120, 32, 120, 56, 54, 95, 54, 52>>,
     <<76, 105, 110, 117, 120, 32, 105, 54, 56, 54>>,
     <<105, 80, 104, 111, 110, 101>>,
     <<105, 80, 97, 100>>,
     <<65, 110, 100, 114, 111, 105, 100>>,
     <<88, 49, 49>> >>

\* the colour depths of validateColorDepth
ValidDepths == <<8, 16, 24, 30, 32, 48>>

\* the values of validateDoNotTrack: "1", "0", "unspecified", "null", ""
ValidDoNotTrack ==
  << <<49>>, <<48>>,
     <<117, 110, 115, 112, 101, 99, 105, 102, 105, 101, 100>>,
     <<110, 117, 108, 108>>, <<>> >>

\* strings.Split(s, "x"): the parts between the 'x' characters
RECURSIVE SplitX(_, _)
SplitX(s, cur) ==
  IF Len(s) = 0 THEN << cur >>
  ELSE IF Head(s) = 120 THEN << cur >> \o SplitX(Tail(s), <<>>)
  ELSE SplitX(Tail(s), Append(cur, Head(s)))

\* every validator returns "" for nil or the text of its error
validateUserAgent(userAgent) ==
  IF Len(userAgent) < 10 \/ Len(userAgent) > 1000
  THEN "user agent length out of range"
  ELSE IF \E k \in 1..Len(UserAgentProducts) :
            MatchProduct(UserAgentProducts[k], userAgent)
  THEN ""
  ELSE "user agent format not recognized"

validateLanguage(language) ==
  IF Len(language) < 2 \/ Len(language) > 10
  THEN "language format invalid"
  ELSE IF /\ Len(language) \in {2, 5}
          /\ \A i \in 1..2 : language[i] >= 97 /\ language[i] <= 122
          /\ Len(language) = 5 =>
               /\ language[3] = 45
               /\ \A i \in 4..5 : language[i] >= 65 /\ language[i] <= 90
  THEN ""
  ELSE "language code format invalid"

validatePlatform(platform) ==
  IF \E k \in 1..Len(ValidPlatforms) : Contains(platform, ValidPlatforms[k])
  THEN ""
  ELSE "platform not recognized"

\* validateHardwareConcurrency with the lower end of the range at 0
validateHardwareConcurrency_FromZero(concurrency) ==
  IF concurrency < 0 \/ concurrency > 128
  THEN "hardware concurrency out of range"
  ELSE ""

validateHardwareConcurrency(concurrency) ==
  IF concurrency < 1 \/ concurrency > 128
  THEN "hardware concurrency out of range"
  ELSE ""

validateMaxTouchPoints(points) ==
  IF points < 0 \/ points > 10
  THEN "max touch points out of range"
  ELSE ""

validateColorDepth(depth) ==
  IF \E k \in 1..Len(ValidDepths) : depth = ValidDepths[k]
  THEN ""
  ELSE "color depth not valid"

\* the ratio is held in hundredths: 0.5 is 50 and 5.0 is 500
validatePixelRatio(ratio) ==
  IF ratio < 50 \/ ratio > 500
  THEN "pixel ratio out of range"
  ELSE ""

\* validateTimezone without its test of the length
validateTimezone_AnyLength(timezone) ==
  IF Len(timezone) = 0
  THEN "timezone length out of range"
  ELSE IF ~ ( /\ Len(IF timezone[1] = 45 THEN Tail(timezone) ELSE timezone) > 0
              /\ \A i \in 1..Len(timezone) :
                   IsDigit(timezone[i]) \/ (i = 1 /\ timezone[i] = 45) )
  THEN "timezone format invalid - should be numeric offset"
  ELSE IF ~ AtoiOk(timezone)
  THEN "timezone not a valid number"
  ELSE IF AtoiValue(timezone) < -840 \/ AtoiValue(timezone) > 720
  THEN "timezone offset out of valid range"
  ELSE ""

validateTimezone(timezone) ==
  IF Len(timezone) = 0 \/ Len(timezone) > 10
  THEN "timezone length out of range"
  ELSE IF ~ ( /\ Len(IF timezone[1] = 45 THEN Tail(timezone) ELSE timezone) > 0
              /\ \A i \in 1..Len(timezone) :
                   IsDigit(timezone[i]) \/ (i = 1 /\ timezone[i] = 45) )
  THEN "timezone format invalid - should be numeric offset"
  ELSE IF ~ AtoiOk(timezone)
  THEN "timezone not a valid number"
  ELSE IF AtoiValue(timezone) < -840 \/ AtoiValue(timezone) > 720
  THEN "timezone offset out of valid range"
  ELSE ""

validateDoNotTrack(dnt) ==
  IF \E k \in 1..Len(ValidDoNotTrack) : dnt = ValidDoNotTrack[k]
  THEN ""
  ELSE "do not track value invalid"

\* validateScreenResolution with a part that is no integer reported as a
\* format error
validateScreenResolution_LettersAsFormat(resolution) ==
  IF resolution = <<>>
  THEN "screen resolution cannot be empty"
  ELSE LET parts == SplitX(resolution, <<>>)
       IN  IF Len(parts) # 2 \/ ~ AtoiOk(parts[1]) \/ ~ AtoiOk(parts[2])
           THEN "screen resolution format invalid"
           ELSE IF AtoiValue(parts[1]) < 100 \/ AtoiValue(parts[1]) > 10000
           THEN "screen width out of range"
           ELSE IF AtoiValue(parts[2]) < 100 \/ AtoiValue(parts[2]) > 10000
           THEN "screen height out of range"
           ELSE ""

validateScreenResolution(resolution) ==
  IF resolution = <<>>
  THEN "screen resolution cannot be empty"
  ELSE LET parts == SplitX(resolution, <<>>)
       IN  IF Len(parts) # 2
           THEN "screen resolution format invalid"
           ELSE IF \/ ~ AtoiOk(parts[1])
                   \/ AtoiValue(parts[1]) < 100
                   \/ AtoiValue(parts[1]) > 10000
           THEN "screen width out of range"
           ELSE IF \/ ~ AtoiOk(parts[2])
                   \/ AtoiValue(parts[2]) < 100
                   \/ AtoiValue(parts[2]) > 10000
           THEN "screen height out of range"
           ELSE ""

\* fmt.Errorf("<text>: %w", err): the text, a colon and the wrapped error
Wrap(text, err) == text \o ": " \o err

\* the field validator swapped with its neighbour in the order of checks
validateFingerprintFields_TouchBeforeCores(fp) ==
  IF validateUserAgent(fp.UserAgent) # ""
  THEN Wrap("invalid user agent", validateUserAgent(fp.UserAgent))
  ELSE IF validateLanguage(fp.Language) # ""
  THEN Wrap("invalid language", validateLanguage(fp.Language))
  ELSE IF validatePlatform(fp.Platform) # ""
  THEN Wrap("invalid platform", validatePlatform(fp.Platform))
  ELSE IF validateMaxTouchPoints(fp.MaxTouchPoints) # ""
  THEN Wrap("invalid max touch points", validateMaxTouchPoints(fp.MaxTouchPoints))
  ELSE IF validateHardwareConcurrency(fp.HardwareConcurrency) # ""
  THEN Wrap("invalid hardware concurrency",
            validateHardwareConcurrency(fp.HardwareConcurrency))
  ELSE IF validateColorDepth(fp.ColorDepth) # ""
  THEN Wrap("invalid color depth", validateColorDepth(fp.ColorDepth))
  ELSE IF validatePixelRatio(fp.PixelRatio) # ""
  THEN Wrap("invalid pixel ratio", validatePixelRatio(fp.PixelRatio))
  ELSE IF validateTimezone(fp.Timezone) # ""
  THEN Wrap("invalid timezone", validateTimezone(fp.Timezone))
  ELSE IF validateDoNotTrack(fp.DoNotTrack) # ""
  THEN Wrap("invalid do not track", validateDoNotTrack(fp.DoNotTrack))
  ELSE IF validateScreenResolution(fp.ScreenResolution) # ""
  THEN Wrap("invalid screen resolution",
            validateScreenResolution(fp.ScreenResolution))
  ELSE IF validateScreenResolution(fp.AvailableScreenResolution) # ""
  THEN Wrap("invalid available screen resolution",
            validateScreenResolution(fp.AvailableScreenResolution))
  ELSE ""

\* validateFingerprintFields: the error of the first failing field under
\* the name of the field, "" when none fails
validateFingerprintFields(fp) ==
  IF validateUserAgent(fp.UserAgent) # ""
  THEN Wrap("invalid user agent", validateUserAgent(fp.UserAgent))
  ELSE IF validateLanguage(fp.Language) # ""
  THEN Wrap("invalid language", validateLanguage(fp.Language))
  ELSE IF validatePlatform(fp.Platform) # ""
  THEN Wrap("invalid platform", validatePlatform(fp.Platform))
  ELSE IF validateHardwareConcurrency(fp.HardwareConcurrency) # ""
  THEN Wrap("invalid hardware concurrency",
            validateHardwareConcurrency(fp.HardwareConcurrency))
  ELSE IF validateMaxTouchPoints(fp.MaxTouchPoints) # ""
  THEN Wrap("invalid max touch points", validateMaxTouchPoints(fp.MaxTouchPoints))
  ELSE IF validateColorDepth(fp.ColorDepth) # ""
  THEN Wrap("invalid color depth", validateColorDepth(fp.ColorDepth))
  ELSE IF validatePixelRatio(fp.PixelRatio) # ""
  THEN Wrap("invalid pixel ratio", validatePixelRatio(fp.PixelRatio))
  ELSE IF validateTimezone(fp.Timezone) # ""
  THEN Wrap("invalid timezone", validateTimezone(fp.Timezone))
  ELSE IF validateDoNotTrack(fp.DoNotTrack) # ""
  THEN Wrap("invalid do not track", validateDoNotTrack(fp.DoNotTrack))
  ELSE IF validateScreenResolution(fp.ScreenResolution) # ""
  THEN Wrap("invalid screen resolution",
            validateScreenResolution(fp.ScreenResolution))
  ELSE IF validateScreenResolution(fp.AvailableScreenResolution) # ""
  THEN Wrap("invalid available screen resolution",
            validateScreenResolution(fp.AvailableScreenResolution))
  ELSE ""

(***************************************************************************)
(* Cipher and codec (internal/crypto).                                     *)
(***************************************************************************)
\* gcm.NonceSize()
NonceSize == 12

\* the length of the GCM authentication tag
TagSize == 16

\* crypto.ReverseBytes
ReverseBytes(data) == [i \in 1..Len(data) |-> data[Len(data) + 1 - i]]

\* the key stream and the tag of the sealing: AES-GCM itself is the
\* library's; the model keeps a sealing that depends on key, nonce and
\* every byte, so that another key or a changed byte fails to open
KeyStream(key, iv, i) == (ByteMix(key, 3) + ByteMix(iv, 5) + 17 * i) % 256

SealTag(key, iv, ct) ==
  LET m == (ByteMix(key, 13) * 7 + ByteMix(iv, 17) * 3 + ByteMix(ct, 19)) % 65536
  IN  [i \in 1..TagSize |-> (m \div (IF i % 2 = 1 THEN 1 ELSE 256) + 29 * i) % 256]

\* gcm.Seal(nil, nonce, plaintext, nil): ciphertext followed by the tag
Seal(key, iv, plaintext) ==
  Once([i \in 1..Len(plaintext) |->
          (plaintext[i] + KeyStream(key, iv, i)) % 256],
       LAMBDA ct : ct \o SealTag(key, iv, ct))

\* gcm.Open(nil, nonce, ciphertext, nil)
Open(key, iv, sealed) ==
  IF Len(sealed) < TagSize
  THEN [err |-> "failed to decrypt", val |-> <<>>]
  ELSE Once(SubSeq(sealed, 1, Len(sealed) - TagSize), LAMBDA ct :
         IF SubSeq(sealed, Len(sealed) - TagSize + 1, Len(sealed))
              # SealTag(key, iv, ct)
         THEN [err |-> "failed to decrypt", val |-> <<>>]
         ELSE [err |-> "",
               val |-> [i \in 1..Len(ct) |->
                          (ct[i] + 256 - KeyStream(key, iv, i)) % 256]])

\* crypto.Encrypt with the nonce that rand.Reader gave
Encrypt(plaintext, key, iv) ==
  Once(iv \o Seal(key, iv, plaintext), LAMBDA ciphertext :
    Base64Encode(ciphertext))

\* crypto.Decrypt
Decrypt(ciphertextBase64, key) ==
  IF ~ Base64Ok(ciphertextBase64)
  THEN [err |-> "failed to decode base64", val |-> <<>>]
  ELSE Once(Base64Decode(ciphertextBase64), LAMBDA ciphertext :
         IF Len(ciphertext) < NonceSize
         THEN [err |-> "ciphertext too short", val |-> <<>>]
         ELSE Open(key, SubSeq(ciphertext, 1, NonceSize),
                   SubSeq(ciphertext, NonceSize + 1, Len(ciphertext))))

\* encoding/json of the rune that starts at position i of s: '"' and '\'
\* behind a backslash, \n \r \t, the other control characters and < > & as
\* the escape u00XX, a byte that is no UTF-8 as the escape ufffd, U+2028 and
\* U+2029 as the escapes u2028 and u2029, everything else as it is
JsonEscapeAt(s, i) ==
  LET c == s[i]
      n == Utf8Size(s, i)
  IN  IF c < 128
      THEN IF c = 34 \/ c = 92 THEN << 92, c >>
           ELSE IF c = 10 THEN << 92, 110 >>
           ELSE IF c = 13 THEN << 92, 114 >>
           ELSE IF c = 9 THEN << 92, 116 >>
           ELSE IF c < 32 \/ c = 60 \/ c = 62 \/ c = 38
           THEN << 92, 117, 48, 48, HexDigit(c \div 16), HexDigit(c % 16) >>
           ELSE << c >>
      ELSE IF n = 0 THEN << 92, 117, 102, 102, 102, 100 >>
      ELSE IF n = 3 /\ c = 226 /\ s[i + 1] = 128
              /\ (s[i + 2] = 168 \/ s[i + 2] = 169)
      THEN << 92, 117, 50, 48, 50, 56 + (s[i + 2] - 168) >>
      ELSE SubSeq(s, i, i + n - 1)

\* encoding/json of the bytes of a string, rune by rune
JsonEscape(s) ==
  Flatten([i \in 1..Len(s) |->
             IF InsideRune(s, 1, i) THEN <<>> ELSE JsonEscapeAt(s, i)],
          Len(s))

JsonString(s) == << 34 >> \o JsonEscape(s) \o << 34 >>

\* encoding/json of a float64 held in hundredths: the shortest decimal
JsonFloat(r) ==
  IF r % 100 = 0 THEN Itoa(r \div 100)
  ELSE IF r % 10 = 0 THEN Itoa(r \div 100) \o << 46, 48 + ((r % 100) \div 10) >>
  ELSE Itoa(r \div 100) \o << 46, 48 + ((r % 100) \div 10), 48 + (r % 10) >>

JsonBool(b) == IF b THEN <<116, 114, 117, 101>> ELSE <<102, 97, 108, 115, 101>>

\* json.Marshal of a FingerprintData: the fields in struct order under
\* their json tags
jsonMarshal(fp) ==
     <<123, 34, 117, 115, 101, 114, 65, 103, 101, 110, 116, 34, 58>>
  \o JsonString(fp.UserAgent)
  \o <<44, 34, 108, 97, 110, 103, 117, 97, 103, 101, 34, 58>>
  \o JsonString(fp.Language)
  \o <<44, 34, 112, 108, 97, 116, 102, 111, 114, 109, 34, 58>>
  \o JsonString(fp.Platform)
  \o <<44, 34, 104, 97, 114, 100, 119, 97, 114, 101, 67, 111, 110, 99, 117,
       114, 114, 101, 110, 99, 121, 34, 58>>
  \o Itoa(fp.HardwareConcurrency)
  \o <<44, 34, 109, 97, 120, 84, 111, 117, 99, 104, 80, 111, 105, 110, 116,
       115, 34, 58>>
  \o Itoa(fp.MaxTouchPoints)
  \o <<44, 34, 99, 111, 108, 111, 114, 68, 101, 112, 116, 104, 34, 58>>
  \o Itoa(fp.ColorDepth)
  \o <<44, 34, 112, 105, 120, 101, 108, 82, 97, 116, 105, 111, 34, 58>>
  \o JsonFloat(fp.PixelRatio)
  \o <<44, 34, 116, 105, 109, 101, 122, 111, 110, 101, 34, 58>>
  \o JsonString(fp.Timezone)
  \o <<44, 34, 99, 111, 111, 107, 105, 101, 69, 110, 97, 98, 108, 101, 100,
       34, 58>>
  \o JsonBool(fp.CookieEnabled)
  \o <<44, 34, 100, 111, 78, 111, 116, 84, 114, 97, 99, 107, 34, 58>>
  \o JsonString(fp.DoNotTrack)
  \o <<44, 34, 115, 99, 114, 101, 101, 110, 82, 101, 115, 111, 108, 117,
       116, 105, 111, 110, 34, 58>>
  \o JsonString(fp.ScreenResolution)
  \o <<44, 34, 97, 118, 97, 105, 108, 97, 98, 108, 101, 83, 99, 114, 101,
       101, 110, 82, 101, 115, 111, 108, 117, 116, 105, 111, 110, 34, 58>>
  \o JsonString(fp.AvailableScreenResolution)
  \o <<125>>

\* a browser environment every rule accepts: Mozilla/5.0, en-US,
\* Linux x86_64, 8 cores, no touch, depth 24, ratio 1.5, timezone -120,
\* cookies on, do-not-track unspecified, 1920x1080 and 1920x1040
FpGood ==
  [ UserAgent |-> <<77, 111, 122, 105, 108, 108, 97, 47, 53, 46, 48>>,
    Language |-> <<101, 110, 45, 85, 83>>,
    Platform |-> <<76, 105, 110, 117, 120, 32, 120, 56, 54, 95, 54, 52>>,
    HardwareConcurrency |-> 8,
    MaxTouchPoints |-> 0,
    ColorDepth |-> 24,
    PixelRatio |-> 150,
    Timezone |-> <<45, 49, 50, 48>>,
    CookieEnabled |-> TRUE,
    DoNotTrack |-> <<117, 110, 115, 112, 101, 99, 105, 102, 105, 101, 100>>,
    ScreenResolution |-> <<49, 57, 50, 48, 120, 49, 48, 56, 48>>,
    AvailableScreenResolution |-> <<49, 57, 50, 48, 120, 49, 48, 52, 48>> ]

\* the same browser reporting 256 cores
FpManyCores == [FpGood EXCEPT !.HardwareConcurrency = 256]

\* the fields of FingerprintData: json tag, field, kind of value
FingerprintFields ==
  << [key |-> <<117, 115, 101, 114, 65, 103, 101, 110, 116>>,
      field |-> "UserAgent", kind |-> "string"],
     [key |-> <<108, 97, 110, 103, 117, 97, 103, 101>>,
      field |-> "Language", kind |-> "string"],
     [key |-> <<112, 108, 97, 116, 102, 111, 114, 109>>,
      field |-> "Platform", kind |-> "string"],
     [key |-> <<104, 97, 114, 100, 119, 97, 114, 101, 67, 111, 110, 99, 117, 114, 114, 101, 110, 99, 121>>,
      field |-> "HardwareConcurrency", kind |-> "int"],
     [key |-> <<109, 97, 120, 84, 111, 117, 99, 104, 80, 111, 105, 110, 116, 115>>,
      field |-> "MaxTouchPoints", kind |-> "int"],
     [key |-> <<99, 111, 108, 111, 114, 68, 101, 112, 116, 104>>,
      field |-> "ColorDepth", kind |-> "int"],
     [key |-> <<112, 105, 120, 101, 108, 82, 97, 116, 105, 111>>,
      field |-> "PixelRatio", kind |-> "float"],
     [key |-> <<116, 105, 109, 101, 122, 111, 110, 101>>,
      field |-> "Timezone", kind |-> "string"],
     [key |-> <<99, 111, 111, 107, 105, 101, 69, 110, 97, 98, 108, 101, 100>>,
      field |-> "CookieEnabled", kind |-> "bool"],
     [key |-> <<100, 111, 78, 111, 116, 84, 114, 97, 99, 107>>,
      field |-> "DoNotTrack", kind |-> "string"],
     [key |-> <<115, 99, 114, 101, 101, 110, 82, 101, 115, 111, 108, 117, 116, 105, 111, 110>>,
      field |-> "ScreenResolution", kind |-> "string"],
     [key |-> <<97, 118, 97, 105, 108, 97, 98, 108, 101, 83, 99, 114, 101, 101, 110, 82, 101, 115, 111, 108, 117, 116, 105, 111, 110>>,
      field |-> "AvailableScreenResolution", kind |-> "string"] >>

\* the FingerprintData json.Unmarshal starts from
ZeroFingerprint ==
  [ UserAgent |-> <<>>, Language |-> <<>>, Platform |-> <<>>,
    HardwareConcurrency |-> 0, MaxTouchPoints |-> 0, ColorDepth |-> 0,
    PixelRatio |-> 0, Timezone |-> <<>>, CookieEnabled |-> FALSE,
    DoNotTrack |-> <<>>, ScreenResolution |-> <<>>,
    AvailableScreenResolution |-> <<>> ]

IsSpace(c) == c = 32 \/ c = 9 \/ c = 10 \/ c = 13

\* the first position from i on that holds no white space
SkipSpace(s, i) ==
  CHOOSE j \in i..(Len(s) + 1) :
    /\ j = Len(s) + 1 \/ ~ IsSpace(s[j])
    /\ \A k \in i..(j - 1) : IsSpace(s[k])

\* the first position from i on that holds no digit
DigitsEnd(s, i) ==
  CHOOSE j \in i..(Len(s) + 1) :
    /\ j = Len(s) + 1 \/ ~ IsDigit(s[j])
    /\ \A k \in i..(j - 1) : IsDigit(s[k])

\* the code unit of the escape \uXXXX whose 'u' is at position i, -1 when
\* four hex digits do not follow
CodeUnit(s, i) ==
  IF i + 4 <= Len(s) /\ \A k \in 1..4 : HexValue(s[i + k]) >= 0
  THEN HexValue(s[i + 1]) * 4096 + HexValue(s[i + 2]) * 256
       + HexValue(s[i + 3]) * 16 + HexValue(s[i + 4])
  ELSE -1

\* one step of unquoting at position i of s: the closing quote, an escape
\* or a rune.  Escapes are resolved; a lone surrogate and bytes that are no
\* UTF-8 become U+FFFD; a control character and an unknown escape are bad.
ScanStep(s, i) ==
  LET c    == s[i]
      e    == IF i + 1 <= Len(s) THEN s[i + 1] ELSE 0
      u    == CodeUnit(s, i + 1)
      v    == IF i + 7 <= Len(s) /\ s[i + 6] = 92 /\ s[i + 7] = 117
              THEN CodeUnit(s, i + 7) ELSE -1
      w    == Utf8Size(s, i)
      bad  == [kind |-> "bad", bytes |-> <<>>, width |-> 0]
      One(b, n) == [kind |-> "bytes", bytes |-> b, width |-> n]
  IN  IF c = 34 THEN [kind |-> "end", bytes |-> <<>>, width |-> 1]
      ELSE IF c < 32 THEN bad
      ELSE IF c # 92
      THEN IF w = 0 THEN One(ReplacementChar, 1)
           ELSE One(SubSeq(s, i, i + w - 1), w)
      ELSE IF e = 34 \/ e = 92 \/ e = 47 THEN One(<< e >>, 2)
      ELSE IF e = 98 THEN One(<< 8 >>, 2)
      ELSE IF e = 102 THEN One(<< 12 >>, 2)
      ELSE IF e = 110 THEN One(<< 10 >>, 2)
      ELSE IF e = 114 THEN One(<< 13 >>, 2)
      ELSE IF e = 116 THEN One(<< 9 >>, 2)
      ELSE IF e # 117 \/ u < 0 THEN bad
      ELSE IF u >= 55296 /\ u <= 56319 /\ v >= 56320 /\ v <= 57343
      THEN One(Utf8Encode(65536 + (u - 55296) * 1024 + (v - 56320)), 12)
      ELSE IF u >= 55296 /\ u <= 57343 THEN One(ReplacementChar, 6)
      ELSE One(Utf8Encode(u), 6)

\* the number of backslashes in a row that end before position k of a
\* string that starts at position i of s
Backslashes(s, i, k) ==
  LET stops == { j \in (i - 1)..(k - 1) : j = i - 1 \/ s[j] # 92 }
  IN  k - 1 - (CHOOSE j \in stops : \A j2 \in stops : j2 <= j)

\* the backslash at position k opens an escape
OpensEscape(s, i, k) ==
  k >= i /\ k <= Len(s) /\ s[k] = 92 /\ Backslashes(s, i, k) % 2 = 0

\* the backslash at position k opens a u escape of a code unit in lo..hi
OpensUnit(s, i, k, lo, hi) ==
  /\ OpensEscape(s, i, k)
  /\ k + 1 <= Len(s) /\ s[k + 1] = 117
  /\ CodeUnit(s, k + 1) >= lo /\ CodeUnit(s, k + 1) <= hi

\* does a step of unquoting start at position k: not at the character
\* behind an escaping backslash, not at the hex digits of a u escape, not at
\* the second half of a surrogate pair, not inside a rune
StepStarts(s, i, k) ==
  /\ ~ OpensEscape(s, i, k - 1)
  /\ ~ \E p \in (k - 5)..(k - 2) :
         OpensEscape(s, i, p) /\ s[p + 1] = 117 /\ CodeUnit(s, p + 1) >= 0
  /\ ~ ( /\ OpensUnit(s, i, k, 56320, 57343)
         /\ OpensUnit(s, i, k - 6, 55296, 56319) )
  /\ ~ InsideRune(s, i, k)

\* a JSON string whose opening quote is before position i: the bytes it
\* stands for and the position after the closing quote
ScanString(s, i) ==
  LET quotes == { q \in i..Len(s) :
                    s[q] = 34 /\ Backslashes(s, i, q) % 2 = 0 }
      q == CHOOSE q1 \in quotes : \A q2 \in quotes : q1 <= q2
  IN  IF quotes = {} THEN [ok |-> FALSE, val |-> <<>>, next |-> i]
      ELSE IF \E k \in i..(q - 1) :
                StepStarts(s, i, k) /\ ScanStep(s, k).kind = "bad"
      THEN [ok |-> FALSE, val |-> <<>>, next |-> i]
      ELSE [ok |-> TRUE,
            val |-> Flatten([n \in 1..(q - i) |->
                               IF StepStarts(s, i, i + n - 1)
                               THEN ScanStep(s, i + n - 1).bytes
                               ELSE <<>>],
                            q - i),
            next |-> q + 1]

\* a JSON number at position i: whole is FALSE when it has a fraction or
\* an exponent; int is its integer, hundredths its value times 100.  The
\* model reads fractions of one or two digits and no exponents, which is
\* what json.Marshal writes for the pixel ratios of the model.
ScanNumber(s, i) ==
  LET neg  == i <= Len(s) /\ s[i] = 45
      d0   == IF neg THEN i + 1 ELSE i
      d1   == DigitsEnd(s, d0)
      frac == d1 <= Len(s) /\ s[d1] = 46
      f1   == IF frac THEN DigitsEnd(s, d1 + 1) ELSE d1
      int  == DigitsValue(SubSeq(s, d0, d1 - 1), 0)
      hun  == IF ~ frac THEN 0
              ELSE IF f1 - d1 = 2 THEN 10 * (s[d1 + 1] - 48)
              ELSE 10 * (s[d1 + 1] - 48) + (s[d1 + 2] - 48)
      sign == IF neg THEN -1 ELSE 1
  IN  [ok |-> /\ d1 > d0
              /\ (d1 - d0 > 1 => s[d0] # 48)
              /\ frac => (f1 - d1 \in {2, 3})
              /\ ~ (f1 <= Len(s) /\ (s[f1] = 101 \/ s[f1] = 69)),
       whole |-> ~ frac,
       int |-> sign * int,
       hundredths |-> sign * (100 * int + hun),
       next |-> f1]

\* a JSON value at position i: a string, a number, true, false or null
ScanValue(s, i) ==
  LET none == [ok |-> FALSE, kind |-> "none", str |-> <<>>, whole |-> FALSE,
               int |-> 0, hundredths |-> 0, bool |-> FALSE, next |-> i]
  IN  IF i > Len(s) THEN none
      ELSE IF s[i] = 34
      THEN LET r == ScanString(s, i + 1)
           IN  [none EXCEPT !.ok = r.ok, !.kind = "string", !.str = r.val,
                            !.next = r.next]
      ELSE IF s[i] = 45 \/ IsDigit(s[i])
      THEN LET r == ScanNumber(s, i)
           IN  [none EXCEPT !.ok = r.ok, !.kind = "number", !.whole = r.whole,
                            !.int = r.int, !.hundredths = r.hundredths,
                            !.next = r.next]
      ELSE IF HoldsAt(s, <<116, 114, 117, 101>>, i)
      THEN [none EXCEPT !.ok = TRUE, !.kind = "bool", !.bool = TRUE, !.next = i + 4]
      ELSE IF HoldsAt(s, <<102, 97, 108, 115, 101>>, i)
      THEN [none EXCEPT !.ok = TRUE, !.kind = "bool", !.bool = FALSE, !.next = i + 5]
      ELSE IF HoldsAt(s, <<110, 117, 108, 108>>, i)
      THEN [none EXCEPT !.ok = TRUE, !.kind = "null", !.next = i + 4]
      ELSE none

\* the member key : value stored into the record: the field whose tag
\* equals the key, letter case aside; null and an unknown key change
\* nothing; ok is FALSE when the value is not of the kind of the field
StoreMember(rec, key, v) ==
  LET hits == { k \in 1..Len(FingerprintFields) :
                  ToLower(FingerprintFields[k].key) = ToLower(key) }
  IN  IF hits = {} \/ v.kind = "null" THEN [ok |-> TRUE, rec |-> rec]
      ELSE LET f == FingerprintFields[CHOOSE k \in hits : TRUE]
           IN  IF f.kind = "string" /\ v.kind = "string"
               THEN [ok |-> TRUE, rec |-> [rec EXCEPT ![f.field] = v.str]]
               ELSE IF f.kind = "int" /\ v.kind = "number" /\ v.whole
               THEN [ok |-> TRUE, rec |-> [rec EXCEPT ![f.field] = v.int]]
               ELSE IF f.kind = "float" /\ v.kind = "number"
               THEN [ok |-> TRUE, rec |-> [rec EXCEPT ![f.field] = v.hundredths]]
               ELSE IF f.kind = "bool" /\ v.kind = "bool"
               THEN [ok |-> TRUE, rec |-> [rec EXCEPT ![f.field] = v.bool]]
               ELSE [ok |-> FALSE, rec |-> rec]

\* the member at position i: its key, its value and the position of the
\* next token after it
ScanMember(s, i) ==
  LET k == ScanString(s, i + 1)
      c == SkipSpace(s, k.next)
      v == ScanValue(s, SkipSpace(s, c + 1))
  IN  IF i > Len(s) \/ s[i] # 34 \/ ~ k.ok \/ c > Len(s) \/ s[c] # 58
      THEN [ok |-> FALSE, key |-> <<>>, val |-> ScanValue(s, Len(s) + 1),
            next |-> i]
      ELSE [ok |-> v.ok, key |-> k.val, val |-> v,
            next |-> SkipSpace(s, v.next)]

\* the members of a JSON object from the key at position i on, up to the
\* closing brace and the end of the text
RECURSIVE ScanMembers(_, _, _)
ScanMembers(s, i, rec) ==
  Once(ScanMember(s, i), LAMBDA mb :
    Once(StoreMember(rec, mb.key, mb.val), LAMBDA m :
      LET e   == mb.next
          bad == [ok |-> FALSE, rec |-> rec]
      IN  IF ~ mb.ok \/ ~ m.ok \/ e > Len(s) THEN bad
          ELSE IF s[e] = 44 THEN ScanMembers(s, SkipSpace(s, e + 1), m.rec)
          ELSE IF s[e] = 125 /\ SkipSpace(s, e + 1) = Len(s) + 1
          THEN [ok |-> TRUE, rec |-> m.rec]
          ELSE bad))

\* json.Unmarshal into a FingerprintData: an object of scalar members, in
\* any order, with white space between the tokens; null leaves the zero
\* record; every other text is an error
jsonUnmarshal(text) ==
  LET bad == [err |-> "invalid JSON", val |-> ZeroFingerprint]
      i   == SkipSpace(text, 1)
  IN  IF HoldsAt(text, <<110, 117, 108, 108>>, i)
         /\ SkipSpace(text, i + 4) = Len(text) + 1
      THEN [err |-> "", val |-> ZeroFingerprint]
      ELSE IF i > Len(text) \/ text[i] # 123 THEN bad
      ELSE LET j == SkipSpace(text, i + 1)
           IN  IF j <= Len(text) /\ text[j] = 125
               THEN IF SkipSpace(text, j + 1) = Len(text) + 1
                    THEN [err |-> "", val |-> ZeroFingerprint]
                    ELSE bad
               ELSE LET r == ScanMembers(text, j, ZeroFingerprint)
                    IN  IF r.ok THEN [err |-> "", val |-> r.rec] ELSE bad

\* Validator.ValidateFingerprint: decrypt, reverse, base64-decode, parse,
\* validate; err is "" on success and val the decoded record
ValidateFingerprint(encryptedFingerprint, key) ==
  Once(Decrypt(encryptedFingerprint, key), LAMBDA dec :
    IF dec.err # ""
    THEN [err |-> Wrap("failed to decrypt fingerprint", dec.err), val |-> <<>>]
    ELSE Once(ReverseBytes(dec.val), LAMBDA reversedData :
      IF ~ Base64Ok(reversedData)
      THEN [err |-> Wrap("failed to decode base64 fingerprint",
                         "illegal base64 data"),
            val |-> <<>>]
      ELSE Once(Base64Decode(reversedData), LAMBDA jsonData :
        Once(jsonUnmarshal(jsonData), LAMBDA parsed :
          IF parsed.err # ""
          THEN [err |-> Wrap("failed to parse fingerprint JSON", parsed.err),
                val |-> <<>>]
          ELSE Once(validateFingerprintFields(parsed.val), LAMBDA fields :
            IF fields # ""
            THEN [err |-> Wrap("fingerprint validation failed", fields),
                  val |-> <<>>]
            ELSE [err |-> "", val |-> << parsed.val >>])))))

\* reverseString of the browser module: the runes of s in reverse order, a
\* byte that starts no rune read as U+FFFD
reverseString(s) ==
  IF \A i \in 1..Len(s) : s[i] < 128
  THEN [i \in 1..Len(s) |-> s[Len(s) + 1 - i]]
  ELSE Flatten([n \in 1..Len(s) |->
                  LET i == Len(s) + 1 - n
                  IN  IF InsideRune(s, 1, i) THEN <<>>
                      ELSE IF Utf8Size(s, i) = 0 THEN ReplacementChar
                      ELSE SubSeq(s, i, i + Utf8Size(s, i) - 1)],
               Len(s))

\* utf8.ValidString: is s the encoding of a sequence of runes
ValidString(s) ==
  \A i \in 1..Len(s) : InsideRune(s, 1, i) \/ Utf8Size(s, i) > 0

\* collectFingerprint without the reversal
collectFingerprint_NoReverse(fp, key, iv) ==
  Once(jsonMarshal(fp), LAMBDA jsonData :
    Once(Base64Encode(jsonData), LAMBDA b64Data :
      Encrypt(b64Data, key, iv)))

\* collectFingerprint of the browser module: serialize, base64, reverse,
\* encrypt
collectFingerprint(fp, key, iv) ==
  Once(jsonMarshal(fp), LAMBDA jsonData :
    Once(Base64Encode(jsonData), LAMBDA b64Data :
      Once(reverseString(b64Data), LAMBDA reversedData :
        Encrypt(reversedData, key, iv))))

\* the 32-byte key of the server and another 32-byte key
ServerKey == [i \in 1..32 |-> (7 * i) % 256]
OtherKey == [i \in 1..32 |-> (11 * i + 1) % 256]

\* the nonce the browser drew
ClientIV == [i \in 1..NonceSize |-> i]

\* one byte of a token replaced by another alphabet character
FlipByte(token, i) ==
  [token EXCEPT ![i] = IF token[i] = 65 THEN 66 ELSE 65]

\* the tokens verify requests carry: a good one, and it with a flipped byte
TokGood == collectFingerprint(FpGood, ServerKey, ClientIV)
TokFlipped == FlipByte(TokGood, 20)

\* the same browser reporting 16 cores; its record is one byte longer on
\* the wire, so that its token ends in padding
FpSixteenCores == [FpGood EXCEPT !.HardwareConcurrency = 16]

\* a browser whose user agent holds characters the serializer escapes and
\* characters outside ASCII: Mozilla/5.0 ("<caf\u00e9>" \ & U+2028 tab)
FpEscapes ==
  [FpGood EXCEPT !.UserAgent = 
      <<77, 111, 122, 105, 108, 108, 97, 47, 53, 46, 48, 32, 40, 34, 60, 99,
        97, 102, 195, 169, 62, 34, 32, 92, 32, 38, 32, 226, 128, 168, 9, 41>>]

\* a record whose platform holds a byte that is no UTF-8: Win32 and 0xFF
FpNotText ==
  [FpGood EXCEPT !.Platform = <<87, 105, 110, 51, 50, 255>>]

\* a record whose screen resolution is abcxdef
FpLetterResolution ==
  [FpGood EXCEPT !.ScreenResolution = <<97, 98, 99, 120, 100, 101, 102>>]

\* the records browsers of the model send through the token pipeline; the
\* last two are FpGood with timezone 0000000120 and 00000000120
FingerprintsSent ==
  { FpGood, FpSixteenCores, FpManyCores, FpEscapes, FpNotText,
    FpLetterResolution,
    [FpGood EXCEPT !.Timezone = <<48, 48, 48, 48, 48, 48, 48, 49, 50, 48>>],
    [FpGood EXCEPT !.Timezone = <<48, 48, 48, 48, 48, 48, 48, 48, 49, 50, 48>>] }

\* per field, the values records of the model take, one the rule accepts
\* first: Mozilla/5.0, curl/8.0.1, Mozilla; en-US, english; Linux x86_64,
\* Amiga; 0 and 11 touch points; depth 24 and 12; ratio 1.5 and 0.25, in
\* hundredths; -120, UTC+2; unspecified, yes
FieldValues ==
  [ UserAgent      |-> { <<77, 111, 122, 105, 108, 108, 97, 47, 53, 46, 48>>,
                         <<99, 117, 114, 108, 47, 56, 46, 48, 46, 49>>,
                         <<77, 111, 122, 105, 108, 108, 97>> },
    Language       |-> { <<101, 110, 45, 85, 83>>,
                         <<101, 110, 103, 108, 105, 115, 104>> },
    Platform       |-> { <<76, 105, 110, 117, 120, 32, 120, 56, 54, 95, 54, 52>>,
                         <<65, 109, 105, 103, 97>> },
    MaxTouchPoints |-> { 0, 11 },
    ColorDepth     |-> { 24, 12 },
    PixelRatio     |-> { 150, 25 },
    Timezone       |-> { <<45, 49, 50, 48>>,
                         <<85, 84, 67, 43, 50>> },
    DoNotTrack     |-> { <<117, 110, 115, 112, 101, 99, 105, 102, 105, 101, 100>>,
                         <<121, 101, 115>> } ]

\* the core counts of the model: around both ends of the range, and 256
CoreCounts == (-2..3) \cup (126..130) \cup { 8, 255, 256 }

\* the resolution texts of the model: 1920x1080, 100x100, 10000x10000,
\* 99x1080, 10001x1080, 1920x99, 1920x10001, abcxdef, 1920xdef, abcx1080,
\* 1920, 1920x1080x1, the empty text, x, 1920X1080, +1920x1080, 0100x0100,
\* -1920x1080, " 1920x1080", 19.5x1080, 1920x
Resolutions ==
  { <<49, 57, 50, 48, 120, 49, 48, 56, 48>>,
    <<49, 48, 48, 120, 49, 48, 48>>,
    <<49, 48, 48, 48, 48, 120, 49, 48, 48, 48, 48>>,
    <<57, 57, 120, 49, 48, 56, 48>>,
    <<49, 48, 48, 48, 49, 120, 49, 48, 56, 48>>,
    <<49, 57, 50, 48, 120, 57, 57>>,
    <<49, 57, 50, 48, 120, 49, 48, 48, 48, 49>>,
    <<97, 98, 99, 120, 100, 101, 102>>,
    <<49, 57, 50, 48, 120, 100, 101, 102>>,
    <<97, 98, 99, 120, 49, 48, 56, 48>>,
    <<49, 57, 50, 48>>,
    <<49, 57, 50, 48, 120, 49, 48, 56, 48, 120, 49>>,
    <<>>,
    <<120>>,
    <<49, 57, 50, 48, 88, 49, 48, 56, 48>>,
    <<43, 49, 57, 50, 48, 120, 49, 48, 56, 48>>,
    <<48, 49, 48, 48, 120, 48, 49, 48, 48>>,
    <<45, 49, 57, 50, 48, 120, 49, 48, 56, 48>>,
    <<32, 49, 57, 50, 48, 120, 49, 48, 56, 48>>,
    <<49, 57, 46, 53, 120, 49, 48, 56, 48>>,
    <<49, 57, 50, 48, 120>> }

\* the timezone texts of the model: -840, 720, -841, 721, 0, -0, 00720,
\* 0000000120, 00000000120, -000000840, -0000000840, +120, the empty text, -,
\* 12a,  120, 9999999999, 1e2, 120.0, --5, the Arabic-Indic digits 30, -120,
\* 840, -720
TimezoneTexts ==
  { <<45, 56, 52, 48>>,
    <<55, 50, 48>>,
    <<45, 56, 52, 49>>,
    <<55, 50, 49>>,
    <<48>>,
    <<45, 48>>,
    <<48, 48, 55, 50, 48>>,
    <<48, 48, 48, 48, 48, 48, 48, 49, 50, 48>>,
    <<48, 48, 48, 48, 48, 48, 48, 48, 49, 50, 48>>,
    <<45, 48, 48, 48, 48, 48, 48, 56, 52, 48>>,
    <<45, 48, 48, 48, 48, 48, 48, 48, 56, 52, 48>>,
    <<43, 49, 50, 48>>,
    <<>>,
    <<45>>,
    <<49, 50, 97>>,
    <<32, 49, 50, 48>>,
    <<57, 57, 57, 57, 57, 57, 57, 57, 57, 57>>,
    <<49, 101, 50>>,
    <<49, 50, 48, 46, 48>>,
    <<45, 45, 53>>,
    <<217, 163, 217, 160>>,
    <<45, 49, 50, 48>>,
    <<56, 52, 48>>,
    <<45, 55, 50, 48>> }

\* the records of the model: every combination of an accepted and a refused
\* value per field, and FpGood with each core count, each resolution and
\* each timezone text
FingerprintsWide ==
  { [ UserAgent |-> ua, Language |-> la, Platform |-> pl,
      HardwareConcurrency |-> hc, MaxTouchPoints |-> tp, ColorDepth |-> cd,
      PixelRatio |-> pr, Timezone |-> tz, CookieEnabled |-> TRUE,
      DoNotTrack |-> dn, ScreenResolution |-> sr,
      AvailableScreenResolution |-> ar ] :
      ua \in { FpGood.UserAgent, <<99, 117, 114, 108, 47, 56, 46, 48, 46, 49>> },
      la \in FieldValues.Language, pl \in FieldValues.Platform,
      hc \in { 8, 256 },
      tp \in FieldValues.MaxTouchPoints, cd \in FieldValues.ColorDepth,
      pr \in FieldValues.PixelRatio,
      tz \in FieldValues.Timezone, dn \in FieldValues.DoNotTrack,
      sr \in { FpGood.ScreenResolution, <<97, 98, 99, 120, 100, 101, 102>> },
      ar \in { FpGood.AvailableScreenResolution, <<49, 57, 50, 48>> } }
  \cup { [FpGood EXCEPT !.HardwareConcurrency = n] : n \in CoreCounts }
  \cup { [FpGood EXCEPT !.ScreenResolution = r] : r \in Resolutions }
  \cup { [FpGood EXCEPT !.AvailableScreenResolution = r] : r \in Resolutions }
  \cup { [FpGood EXCEPT !.UserAgent = u] : u \in FieldValues.UserAgent }
  \cup { [FpGood EXCEPT !.Timezone = z] : z \in TimezoneTexts }
  \cup FingerprintsSent

\* the last character of a token that is not padding
LastSignificant(token) ==
  IF Len(token) >= 2 /\ token[Len(token) - 1] = 61 THEN Len(token) - 2
  ELSE IF Len(token) >= 1 /\ token[Len(token)] = 61 THEN Len(token) - 1
  ELSE Len(token)

\* the byte at position i replaced by the alphabet character whose value
\* differs in the lowest bit
FlipLowBit(token, i) ==
  LET v == B64Value(token[i])
  IN  [token EXCEPT ![i] = B64Char(IF v % 2 = 0 THEN v + 1 ELSE v - 1)]

\* what may happen to a token on its way: nothing, one changed byte (in the
\* nonce, in the ciphertext, in the tag, the last character that is not
\* padding), a cut after 8 characters, a character outside the alphabet, a
\* lost last character
TamperKinds ==
  { "flip nonce", "flip ciphertext", "flip tag", "flip last",
    "too short", "malformed", "truncated" }

Tamper(token, kind) ==
  IF kind = "flip nonce" THEN FlipByte(token, 1)
  ELSE IF kind = "flip ciphertext" THEN FlipByte(token, 20)
  ELSE IF kind = "flip tag" THEN FlipByte(token, Len(token) - 4)
  ELSE IF kind = "flip last" THEN FlipLowBit(token, LastSignificant(token))
  ELSE IF kind = "too short" THEN SubSeq(token, 1, 8)
  ELSE IF kind = "malformed" THEN [token EXCEPT ![5] = 33]
  ELSE SubSeq(token, 1, Len(token) - 1)

\* the keys browsers of the model are built with
ProbeKeys == { "server", "other" }

\* collectFingerprint on each record sent, per key of the browser
CollectedToken ==
  [d \in FingerprintsSent |->
     [k \in ProbeKeys |->
        collectFingerprint(d, IF k = "server" THEN ServerKey ELSE OtherKey,
                           ClientIV)]]

\* the tokens that can reach the service
ProbeTokens ==
  { CollectedToken[d][k] : d \in FingerprintsSent, k \in ProbeKeys }
  \cup { Tamper(CollectedToken[d]["server"], kind) :
           d \in FingerprintsSent, kind \in TamperKinds }

\* ValidateFingerprint of the service on each of them
TokenVerdict == [tok \in ProbeTokens |-> ValidateFingerprint(tok, ServerKey)]

\* no fingerprint is under way
IdleProbe ==
  [ pc |-> "off", fp |-> ZeroFingerprint, key |-> "", tamper |-> "",
    token |-> <<>>, err |-> "", val |-> <<>>, resp |-> <<>> ]

(***************************************************************************)
(* The store (internal/database) and the service (internal/argon2).        *)
(***************************************************************************)
\* the retention CleanupOldSolutions is called with, 24 * time.Hour
SolutionRetentionMinutes == 24 * 60

\* a time.Duration of whole minutes on the model clock
Ticks(minutes) == minutes \div TickMinutes

\* the ids GenerateRandomBytes and hex.EncodeToString can give a challenge
ChallengeIDs == { HexEncodeToString(<< b >>) : b \in 1..MaxChallengeIDs }

\* the id GenerateRandomBytes and hex.EncodeToString give the Solution of
\* the k-th verify request
SolutionID(k) == HexEncodeToString(<< 160 + k >>)

\* the salts rand.Read can give, by salt length
SaltBytes == { 90 }
Salts(length) == { [i \in 1..length |-> b] : b \in SaltBytes }

\* what verify requests carry: nonces "0" and "1", hashes "0f" and "31"
Nonces == { <<48>>, <<49>> }
Hashes == { <<48, 102>>, <<51, 49>> }
Tokens == { TokGood, TokFlipped }

\* an INSERT that replaces the row on a primary-key conflict
CreateChallenge_Upsert(chs, challenge) ==
  [ok |-> TRUE,
   rows |-> [id \in DOMAIN chs \cup {challenge.ID} |->
               IF id = challenge.ID
               THEN [challenge EXCEPT !.Solved = FALSE, !.SolvedAt = <<>>]
               ELSE chs[id]]]

\* DB.CreateChallenge: INSERT INTO challenges; solved takes its default
\* FALSE and solved_at is NULL.  ok is FALSE on a primary-key conflict and
\* when a uint32 cost parameter is 2^31 or more (held as a negative
\* integer), which the INTEGER columns refuse.
CreateChallenge(chs, challenge) ==
  IF \/ challenge.ID \in DOMAIN chs
     \/ challenge.Difficulty < 0
     \/ challenge.Memory < 0
     \/ challenge.KeyLen < 0
  THEN [ok |-> FALSE, rows |-> chs]
  ELSE [ok |-> TRUE,
        rows |-> [id \in DOMAIN chs \cup {challenge.ID} |->
                    IF id = challenge.ID
                    THEN [challenge EXCEPT !.Solved = FALSE, !.SolvedAt = <<>>]
                    ELSE chs[id]]]

\* DB.GetChallenge: the row as a one-element sequence, <<>> for no row
GetChallenge(chs, id) == IF id \in DOMAIN chs THEN << chs[id] >> ELSE <<>>

\* an UPDATE that sets the solved flag and leaves solved_at as it was
MarkChallengeSolved_FlagOnly(chs, id, t) ==
  [c \in DOMAIN chs |->
     IF c = id THEN [chs[c] EXCEPT !.Solved = TRUE] ELSE chs[c]]

\* DB.MarkChallengeSolved: UPDATE ... SET solved = true, solved_at = NOW()
\* WHERE id = $1; no row matching is not an error
MarkChallengeSolved(chs, id, t) ==
  [c \in DOMAIN chs |->
     IF c = id THEN [chs[c] EXCEPT !.Solved = TRUE, !.SolvedAt = << t >>]
     ELSE chs[c]]

\* an INSERT that reports success and stores nothing
CreateSolution_NoRow(sols, chs, solution) == [ok |-> TRUE, rows |-> sols]

\* an INSERT into a solutions table whose challenge_id references nothing
CreateSolution_Unreferenced(sols, chs, solution) ==
  IF solution.ID \in DOMAIN sols
  THEN [ok |-> FALSE, rows |-> sols]
  ELSE [ok |-> TRUE,
        rows |-> [id \in DOMAIN sols \cup {solution.ID} |->
                    IF id = solution.ID THEN solution ELSE sols[id]]]

\* DB.CreateSolution: INSERT INTO solutions; ok is FALSE on a primary-key
\* conflict and when challenge_id references no challenge
CreateSolution(sols, chs, solution) ==
  IF solution.ID \in DOMAIN sols \/ solution.ChallengeID \notin DOMAIN chs
  THEN [ok |-> FALSE, rows |-> sols]
  ELSE [ok |-> TRUE,
        rows |-> [id \in DOMAIN sols \cup {solution.ID} |->
                    IF id = solution.ID THEN solution ELSE sols[id]]]

\* a DELETE that also takes the rows that expire at this instant
ExpiredUnsolved_AtExpiry(chs, t) ==
  { id \in DOMAIN chs : chs[id].ExpiresAt <= t /\ ~ chs[id].Solved }

\* the rows DB.CleanupExpiredChallenges selects:
\* WHERE expires_at < NOW() AND solved = false
ExpiredUnsolved(chs, t) ==
  { id \in DOMAIN chs : chs[id].ExpiresAt < t /\ ~ chs[id].Solved }

\* DB.CleanupExpiredChallenges: the DELETE fails as a whole when a selected
\* row is still referenced by a solution
CleanupExpiredChallenges(chs, sols, t) ==
  IF \E s \in DOMAIN sols : sols[s].ChallengeID \in ExpiredUnsolved(chs, t)
  THEN [ok |-> FALSE, rows |-> chs]
  ELSE [ok |-> TRUE,
        rows |-> [id \in DOMAIN chs \ ExpiredUnsolved(chs, t) |-> chs[id]]]

\* DB.CleanupOldSolutions: DELETE FROM solutions WHERE created_at < cutoff
CleanupOldSolutions(sols, t, olderThan) ==
  [id \in { s \in DOMAIN sols : ~ (sols[s].CreatedAt < t - olderThan) } |->
     sols[id]]

\* verifySolution comparing the hashes only
verifySolution_EqualityOnly(c, challenge, nonce, providedHash) ==
  LET computedHash ==
        HexEncodeToString(IDKey(challenge.Salt \o nonce,
                                Base64Decode(challenge.Salt),
                                challenge.Difficulty, challenge.Memory,
                                challenge.Threads, challenge.KeyLen))
  IN  [err |-> "", valid |-> computedHash = providedHash]

\* verifySolution recomputing under the cost parameters and target of the
\* configuration the service holds
verifySolution_ServerConfig(c, challenge, nonce, providedHash) ==
  LET computedHash ==
        HexEncodeToString(IDKey(challenge.Salt \o nonce,
                                Base64Decode(challenge.Salt),
                                c.Argon2Time, c.Argon2Memory,
                                c.Argon2Threads, c.Argon2KeyLength))
  IN  [err |-> "",
       valid |-> computedHash = providedHash
                 /\ HasPrefix(computedHash, c.Argon2TargetPrefix)]

\* Service.hasValidPrefix
hasValidPrefix(hash, prefix) == HasPrefix(hash, prefix)

\* Service.verifySolution: recompute the hash from the stored challenge
\* and compare; c is the configuration the service holds
verifySolution(c, challenge, nonce, providedHash) ==
  IF ~ Base64Ok(challenge.Salt)
  THEN [err |-> "failed to decode salt", valid |-> FALSE]
  ELSE LET salt == Base64Decode(challenge.Salt)
           inputData == challenge.Salt \o nonce
           computedHash ==
             HexEncodeToString(IDKey(inputData, salt, challenge.Difficulty,
                                     challenge.Memory, challenge.Threads,
                                     challenge.KeyLen))
       IN  [err |-> "",
            valid |-> computedHash = providedHash
                      /\ hasValidPrefix(computedHash, challenge.Target)]

\* the expiry test with the boundary instant counted as expired
Expired_AtBoundary(t, challenge) == t >= challenge.ExpiresAt

\* time.Now().After(challenge.ExpiresAt)
Expired(t, challenge) == t > challenge.ExpiresAt

\* the rejections without the solved test
Rejection_NoSolvedTest(found, t) ==
  IF found = <<>> THEN "challenge not found"
  ELSE IF t > found[1].ExpiresAt THEN "challenge expired"
  ELSE ""

\* the rejections with the solved test before the expiry test
Rejection_SolvedFirst(found, t) ==
  IF found = <<>> THEN "challenge not found"
  ELSE IF found[1].Solved THEN "challenge already solved"
  ELSE IF t > found[1].ExpiresAt THEN "challenge expired"
  ELSE ""

\* the rejection VerifySolution returns before recomputing the hash, ""
\* when the challenge passes; found is the result of GetChallenge
Rejection(found, t) ==
  IF found = <<>> THEN "challenge not found"
  ELSE IF Expired(t, found[1]) THEN "challenge expired"
  ELSE IF found[1].Solved THEN "challenge already solved"
  ELSE ""

\* the Challenge GenerateChallenge builds
NewChallenge(c, id, salt, t) ==
  [ ID         |-> HexEncodeToString(id),
    Salt       |-> Base64Encode(salt),
    Difficulty |-> c.Argon2Time,
    Memory     |-> c.Argon2Memory,
    Threads    |-> c.Argon2Threads,
    KeyLen     |-> c.Argon2KeyLength,
    Target     |-> c.Argon2TargetPrefix,
    CreatedAt  |-> t,
    ExpiresAt  |-> t + Ticks(c.ChallengeExpiryMinutes),
    Solved     |-> FALSE,
    SolvedAt   |-> <<>> ]

\* Service.GenerateChallenge on the table chs at time t, for the random
\* bytes id and salt: err is "" and challenge the one returned, or err is
\* the error; rows is the table afterwards
GenerateChallengeResult(c, chs, id, salt, t, randOk, dbOk) ==
  LET challenge == NewChallenge(c, id, salt, t)
      ins       == CreateChallenge(chs, challenge)
  IN  IF ~ randOk
      THEN [err |-> "failed to generate salt", challenge |-> <<>>, rows |-> chs]
      ELSE IF ~ (dbOk /\ ins.ok)
      THEN [err |-> "failed to store challenge", challenge |-> <<>>, rows |-> chs]
      ELSE [err |-> "", challenge |-> << challenge >>, rows |-> ins.rows]

\* the Solution VerifySolution builds
NewSolution(id, challengeID, nonce, hash, fingerprint, clientIP, userAgent, t, valid) ==
  [ ID          |-> id,
    ChallengeID |-> challengeID,
    Nonce       |-> nonce,
    Hash        |-> hash,
    Fingerprint |-> fingerprint,
    ClientIP    |-> clientIP,
    UserAgent   |-> userAgent,
    CreatedAt   |-> t,
    Valid       |-> valid ]

\* the VerifyResponse VerifyHandler writes for a result of VerifySolution
VerifyResponse(err, solution) ==
  IF err # ""
  THEN [Valid |-> FALSE, Message |-> "Verification failed: " \o err]
  ELSE IF solution[1].Valid
  THEN [Valid |-> TRUE, Message |-> "Captcha solved successfully"]
  ELSE [Valid |-> FALSE, Message |-> "Invalid solution"]

\* the VerifyResponse VerifyHandler writes when ValidateFingerprint fails
FingerprintResponse == [Valid |-> FALSE, Message |-> "Fingerprint validation failed"]

(***************************************************************************)
(* The state machine.                                                      *)
(***************************************************************************)
VARIABLES
  cfg,         \* the Config the running process loaded
  now,         \* the clock
  challenges,  \* table challenges: id -> row
  solutions,   \* table solutions: id -> row
  call,        \* per handler goroutine: the verify request it serves
  sweep,       \* the cleanup routine: "idle" or "solutions"
  requests,    \* verify requests accepted so far
  generated,   \* challenge ids drawn and stored so far
  probe,       \* one fingerprint on its way from a browser to the validator
  solver       \* one browser solving a challenge: CaptchaSystem

vars == << cfg, now, challenges, solutions, call, sweep, requests, generated,
          probe, solver >>

\* the remote address and User-Agent header of the requests of the model
ClientIP == "192.0.2.1"
UserAgentHeader == "Mozilla/5.0"

\* a goroutine that serves no request
IdleCall ==
  [ pc |-> "idle", seq |-> 0, token |-> <<>>, challengeID |-> <<>>, nonce |-> <<>>,
    hash |-> <<>>, fingerprint |-> <<>>, challenge |-> <<>>,
    solution |-> <<>>, err |-> "",
    written |-> 0,   \* Solution rows this request has added to the table

    resp |-> [Valid |-> FALSE, Message |-> ""] ]

\* a browser that holds no challenge
IdleSolver ==
  [ pc |-> "idle", challenge |-> <<>>, nonce |-> 0, hash |-> <<>>,
    accepted |-> FALSE, err |-> "" ]

\* ValidateFingerprint under the server key, for each token of the model
FingerprintVerdict == [tok \in Tokens |-> ValidateFingerprint(tok, ServerKey)]

\* VerifySolution returns err; VerifyHandler writes the response
Fail(c, err) ==
  [c EXCEPT !.pc = "done", !.err = err, !.resp = VerifyResponse(err, <<>>)]

\* VerifySolution returns the solution; VerifyHandler writes the response
Succeed(c) ==
  [c EXCEPT !.pc = "done", !.resp = VerifyResponse("", c.solution)]

Init ==
  /\ cfg \in Configs
  /\ now = 0
  /\ challenges = << >>
  /\ solutions = << >>
  /\ call = [p \in Clients |-> IdleCall]
  /\ sweep = "idle"
  /\ requests = 0
  /\ generated = 0
  /\ probe = IdleProbe
  /\ solver = IdleSolver

\* the bytes GenerateRandomBytes can give an id when at most maxIDs
\* distinct ids come over a run: a value not drawn before, or the id of a
\* row in the table, which the primary key rejects; the id of a deleted
\* row does not come again
IdDraws(maxIDs) ==
  { b \in (1..generated) \cup ({generated + 1} \cap (1..maxIDs)) :
      b <= generated => HexEncodeToString(<< b >>) \in DOMAIN challenges }

\* Service.GenerateChallenge, behind ChallengeHandler
GenerateChallengeUpTo(maxIDs) ==
  \E salt \in Salts(cfg.Argon2SaltLength), b \in IdDraws(maxIDs),
     randOk \in BOOLEAN, dbOk \in BOOLEAN :
    LET r == GenerateChallengeResult(cfg, challenges, << b >>, salt, now,
                                     randOk, dbOk)
    IN  /\ challenges' = r.rows
        /\ generated' = IF r.err = "" THEN generated + 1 ELSE generated
        /\ UNCHANGED << cfg, now, solutions, call, sweep, requests, probe, solver >>

GenerateChallenge == GenerateChallengeUpTo(MaxChallengeIDs)

\* VerifyHandler going on to VerifySolution whatever ValidateFingerprint
\* returned
VerifyHandler_TokenUnchecked(p) ==
  /\ call[p].pc = "idle"
  /\ requests < MaxRequests
  /\ \E id \in ChallengeIDs, nonce \in Nonces, hash \in Hashes, tok \in Tokens,
        dbOk \in BOOLEAN :
     \E v \in { FingerprintVerdict[tok] } :
       LET c == [IdleCall EXCEPT !.seq = requests + 1, !.token = tok,
                                 !.challengeID = id]
       IN  call' = [call EXCEPT ![p] =
             IF ~ dbOk
             THEN Fail(c, "failed to get challenge")
             ELSE [c EXCEPT !.pc = "check", !.nonce = nonce, !.hash = hash,
                            !.fingerprint = IF v.err # "" THEN <<>>
                                            ELSE jsonMarshal(v.val[1]),
                            !.challenge = GetChallenge(challenges, id)]]
  /\ requests' = requests + 1
  /\ UNCHANGED << cfg, now, challenges, solutions, sweep, generated, probe, solver >>

\* Handler.VerifyHandler up to the first store statement of VerifySolution:
\* decode the request, validate the fingerprint, serialize the decoded
\* record, then s.db.GetChallenge(challengeID)
VerifyHandler(p) ==
  /\ call[p].pc = "idle"
  /\ requests < MaxRequests
  /\ \E id \in ChallengeIDs, nonce \in Nonces, hash \in Hashes, tok \in Tokens,
        dbOk \in BOOLEAN :
     \E v \in { FingerprintVerdict[tok] } :
       LET c == [IdleCall EXCEPT !.seq = requests + 1, !.token = tok,
                                 !.challengeID = id]
       IN  call' = [call EXCEPT ![p] =
             IF v.err # ""
             THEN [c EXCEPT !.pc = "done", !.nonce = nonce, !.hash = hash,
                            !.resp = FingerprintResponse]
             ELSE IF ~ dbOk
             THEN Fail(c, "failed to get challenge")
             ELSE [c EXCEPT !.pc = "check", !.nonce = nonce, !.hash = hash,
                            !.fingerprint = jsonMarshal(v.val[1]),
                            !.challenge = GetChallenge(challenges, id)]]
  /\ requests' = requests + 1
  /\ UNCHANGED << cfg, now, challenges, solutions, sweep, generated, probe, solver >>

\* Service.VerifySolution: the rejections, verifySolution, the solution id
\* and the Solution built at time.Now()
VerifyCheck(p) ==
  /\ call[p].pc = "check"
  /\ \E randOk \in BOOLEAN :
       LET c   == call[p]
           rej == Rejection(c.challenge, now)
           ver == verifySolution(cfg, c.challenge[1], c.nonce, c.hash)
       IN  call' = [call EXCEPT ![p] =
             IF rej # "" THEN Fail(c, rej)
             ELSE IF ver.err # "" THEN Fail(c, "failed to verify solution")
             ELSE IF ~ randOk THEN Fail(c, "failed to generate solution ID")
             ELSE [c EXCEPT !.pc = "create", !.nonce = <<>>, !.hash = <<>>,
                            !.fingerprint = <<>>, !.challenge = <<>>,
                            !.solution = << NewSolution(SolutionID(c.seq), c.challengeID,
                                c.nonce, c.hash, c.fingerprint, ClientIP,
                                UserAgentHeader, now, ver.valid) >>]]
  /\ UNCHANGED << cfg, now, challenges, solutions, sweep, requests, generated, probe,
                  solver >>

\* Service.VerifySolution: s.db.CreateSolution(solution)
VerifyCreate(p) ==
  /\ call[p].pc = "create"
  /\ \E dbOk \in BOOLEAN :
       LET c   == call[p]
           ins == CreateSolution(solutions, challenges, c.solution[1])
           w   == c.written + Cardinality(DOMAIN ins.rows)
                            - Cardinality(DOMAIN solutions)
       IN  IF dbOk /\ ins.ok
           THEN /\ solutions' = ins.rows
                /\ call' = [call EXCEPT ![p] =
                     IF c.solution[1].Valid
                     THEN [c EXCEPT !.pc = "mark", !.written = w]
                     ELSE Succeed([c EXCEPT !.written = w])]
           ELSE /\ solutions' = solutions
                /\ call' = [call EXCEPT ![p] = Fail(c, "failed to store solution")]
  /\ UNCHANGED << cfg, now, challenges, sweep, requests, generated, probe, solver >>

\* Service.VerifySolution: s.db.MarkChallengeSolved(challengeID)
VerifyMark(p) ==
  /\ call[p].pc = "mark"
  /\ \E dbOk \in BOOLEAN :
       IF dbOk
       THEN /\ challenges' = MarkChallengeSolved(challenges, call[p].challengeID, now)
            /\ call' = [call EXCEPT ![p] = Succeed(call[p])]
       ELSE /\ challenges' = challenges
            /\ call' = [call EXCEPT ![p] =
                 Fail(call[p], "failed to mark challenge as solved")]
  /\ UNCHANGED << cfg, now, solutions, sweep, requests, generated, probe, solver >>

\* the response is written and the goroutine ends
VerifyReturn(p) ==
  /\ call[p].pc = "done"
  /\ call' = [call EXCEPT ![p] = IdleCall]
  /\ UNCHANGED << cfg, now, challenges, solutions, sweep, requests, generated, probe,
                  solver >>

\* startCleanupRoutine: the ticker fires, db.CleanupExpiredChallenges()
SweepChallenges ==
  /\ sweep = "idle"
  /\ \E dbOk \in BOOLEAN :
       challenges' = IF dbOk
                     THEN CleanupExpiredChallenges(challenges, solutions, now).rows
                     ELSE challenges
  /\ sweep' = "solutions"
  /\ UNCHANGED << cfg, now, solutions, call, requests, generated, probe, solver >>

\* startCleanupRoutine: db.CleanupOldSolutions(24 * time.Hour)
SweepSolutions ==
  /\ sweep = "solutions"
  /\ \E dbOk \in BOOLEAN :
       solutions' = IF dbOk
                    THEN CleanupOldSolutions(solutions, now,
                                             Ticks(SolutionRetentionMinutes))
                    ELSE solutions
  /\ sweep' = "idle"
  /\ UNCHANGED << cfg, now, challenges, call, requests, generated, probe, solver >>

\* the clock advances
Tick ==
  /\ now < MaxTime
  /\ now' = now + 1
  /\ UNCHANGED << cfg, challenges, solutions, call, sweep, requests, generated, probe,
                  solver >>

\* main: the process is stopped with no request in flight and started
\* again under another config.env; the database stays
Restart ==
  /\ \A p \in Clients : call[p].pc = "idle"
  /\ sweep = "idle"
  /\ cfg' \in Configs \ {cfg}
  /\ UNCHANGED << now, challenges, solutions, call, sweep, requests, generated, probe,
                  solver >>

Next ==
  \/ GenerateChallenge
  \/ \E p \in Clients : VerifyHandler(p)
  \/ \E p \in Clients : VerifyCheck(p)
  \/ \E p \in Clients : VerifyCreate(p)
  \/ \E p \in Clients : VerifyMark(p)
  \/ \E p \in Clients : VerifyReturn(p)
  \/ SweepChallenges
  \/ SweepSolutions
  \/ Tick

\* one process from start to stop: concurrent handlers, the cleanup
\* routine, the clock
Spec == Init /\ [][Next]_vars

\* one handler goroutine, and the process restarted under other
\* configurations between requests
NextRestart ==
  \/ GenerateChallenge
  \/ VerifyHandler("h1")
  \/ VerifyCheck("h1")
  \/ VerifyCreate("h1")
  \/ VerifyMark("h1")
  \/ VerifyReturn("h1")
  \/ SweepChallenges
  \/ SweepSolutions
  \/ Tick
  \/ Restart

SpecRestart == Init /\ [][NextRestart]_vars

\* the configuration study: a process started under any config.env an
\* operator can write, issuing challenges while the cleanup routine runs
InitConfig ==
  /\ cfg \in ConfigsWide
  /\ now = 0
  /\ challenges = << >>
  /\ solutions = << >>
  /\ call = [p \in Clients |-> IdleCall]
  /\ sweep = "idle"
  /\ requests = 0
  /\ generated = 0
  /\ probe = IdleProbe
  /\ solver = IdleSolver

GenerateChallengeConfig == GenerateChallengeUpTo(MaxConfigChallengeIDs)

NextConfig ==
  \/ GenerateChallengeConfig
  \/ SweepChallenges
  \/ SweepSolutions
  \/ Tick

SpecConfig == InitConfig /\ [][NextConfig]_vars

(***************************************************************************)
(* One fingerprint from the browser to the validator.                      *)
(***************************************************************************)
\* a browser holds a record; the service holds ServerKey
InitFingerprint ==
  /\ cfg \in Configs
  /\ now = 0
  /\ challenges = << >>
  /\ solutions = << >>
  /\ call = [p \in Clients |-> IdleCall]
  /\ sweep = "idle"
  /\ requests = 0
  /\ generated = 0
  /\ \E d \in FingerprintsWide :
       probe = [IdleProbe EXCEPT !.pc = "browser", !.fp = d]
  /\ solver = IdleSolver

\* Validator.validateFingerprintFields on the record itself
ValidateFields ==
  /\ probe.pc = "browser"
  /\ probe' = [probe EXCEPT !.pc = "fields",
                            !.err = validateFingerprintFields(probe.fp)]
  /\ UNCHANGED << cfg, now, challenges, solutions, call, sweep, requests,
                  generated, solver >>

\* collectFingerprint in a browser built with the key of the service or
\* with another key
CollectFingerprint ==
  /\ probe.pc = "browser"
  /\ probe.fp \in FingerprintsSent
  /\ \E k \in ProbeKeys :
       probe' = [probe EXCEPT !.pc = "token", !.key = k, !.tamper = "none",
                              !.token = CollectedToken[probe.fp][k]]
  /\ UNCHANGED << cfg, now, challenges, solutions, call, sweep, requests,
                  generated, solver >>

\* the token is changed on its way to the service
TamperToken ==
  /\ probe.pc = "token"
  /\ probe.tamper = "none"
  /\ probe.key = "server"
  /\ \E kind \in TamperKinds :
       probe' = [probe EXCEPT !.tamper = kind,
                              !.token = Tamper(probe.token, kind)]
  /\ UNCHANGED << cfg, now, challenges, solutions, call, sweep, requests,
                  generated, solver >>

\* the probe after ValidateFingerprint returned v: on an error the handler
\* writes the response with status 400
Validated(v) ==
  [probe EXCEPT !.pc = "validated", !.err = v.err, !.val = v.val,
                !.resp = IF v.err # "" THEN << FingerprintResponse >> ELSE <<>>]

\* Handler.VerifyHandler on the token, up to the fingerprint verdict
ValidateToken ==
  /\ probe.pc = "token"
  /\ probe' = Validated(TokenVerdict[probe.token])
  /\ UNCHANGED << cfg, now, challenges, solutions, call, sweep, requests,
                  generated, solver >>

NextFingerprint ==
  \/ ValidateFields
  \/ CollectFingerprint
  \/ TamperToken
  \/ ValidateToken

SpecFingerprint == InitFingerprint /\ [][NextFingerprint]_vars

(***************************************************************************)
(* One browser from the challenge to the verdict on its proof of work.     *)
(***************************************************************************)
\* the nonces solveChallenge tries are 0..MaxSolveNonce
MaxSolveNonce == 40

\* config.env files for the proof of work: cost parameters an operator can
\* write, zero among them
EnvIntsSolve ==
  { [ARGON2_TIME |-> time, ARGON2_MEMORY |-> memory,
     ARGON2_THREADS |-> threads, ARGON2_KEY_LENGTH |-> keyLen,
     ARGON2_SALT_LENGTH |-> <<49>>,
     CHALLENGE_EXPIRY_MINUTES |-> Itoa(TickMinutes)] :
      time    \in { <<49>>, <<50>>, <<48>> },
      memory  \in { <<54, 53, 53, 51, 54>>, <<54, 52>> },
      threads \in { <<49>>, <<50>>, <<48>> },
      keyLen  \in { <<49>>, <<50>>, <<48>> } }

ConfigsSolve == { Load(ei, es) : ei \in EnvIntsSolve, es \in EnvStrs }

\* a number of the challenge as the browser reads it from the JSON of the
\* response: its decimal digits, parsed
JsNumber(n) == AtoiValue(Itoa(n))

\* a || b of JavaScript on numbers: b when a is 0
OrDefault(a, b) == IF a = 0 THEN b ELSE a

\* one turn of the loop of solveChallenge for the nonce: the hex text of
\* argon2.hash with the arguments the browser passes
ClientHash(challenge, nonce) ==
  HexEncodeToString(
    IDKey(challenge.Salt \o Itoa(nonce), Base64Decode(challenge.Salt),
          OrDefault(challenge.Difficulty, 3),
          OrDefault(challenge.Memory, 65536),
          OrDefault(challenge.Threads, 1),
          OrDefault(challenge.KeyLen, 32)))

\* argon2.IDKey panics on fewer than one pass or one lane
IDKeyPanics(challenge) == challenge.Difficulty < 1 \/ challenge.Threads < 1

InitSolve ==
  /\ cfg \in ConfigsSolve
  /\ now = 0
  /\ challenges = << >>
  /\ solutions = << >>
  /\ call = [p \in Clients |-> IdleCall]
  /\ sweep = "idle"
  /\ requests = 0
  /\ generated = 0
  /\ probe = IdleProbe
  /\ solver = IdleSolver

\* CaptchaSystem.getChallenge: ChallengeHandler generates a challenge and
\* the browser keeps the one in the response
GetChallengeFromService ==
  /\ solver.pc = "idle"
  /\ \E salt \in Salts(cfg.Argon2SaltLength), b \in IdDraws(MaxChallengeIDs),
        randOk \in BOOLEAN, dbOk \in BOOLEAN :
       \E r \in { GenerateChallengeResult(cfg, challenges, << b >>, salt, now,
                                          randOk, dbOk) } :
         /\ challenges' = r.rows
         /\ generated' = IF r.err = "" THEN generated + 1 ELSE generated
         /\ solver' =
              IF r.err # ""
              THEN [solver EXCEPT !.pc = "failed", !.err = "Failed to get challenge"]
              ELSE [solver EXCEPT
                      !.pc = "solving",
                      !.challenge =
                        << [r.challenge[1] EXCEPT
                              !.Difficulty = JsNumber(@),
                              !.Memory = JsNumber(@),
                              !.Threads = JsNumber(@),
                              !.KeyLen = JsNumber(@)] >>]
  /\ UNCHANGED << cfg, now, solutions, call, sweep, requests, probe >>

\* CaptchaSystem.solveChallenge: one turn of the loop
SolveStep ==
  /\ solver.pc = "solving"
  /\ \E h \in { ClientHash(solver.challenge[1], solver.nonce) } :
       IF HasPrefix(h, solver.challenge[1].Target)
       THEN solver' = [solver EXCEPT !.pc = "solved", !.hash = h]
       ELSE /\ solver.nonce < MaxSolveNonce
            /\ solver' = [solver EXCEPT !.nonce = @ + 1]
  /\ UNCHANGED << cfg, now, challenges, solutions, call, sweep, requests,
                  generated, probe >>

\* Service.verifySolution on the stored challenge and the nonce and hash
\* the browser returned
VerifySolved ==
  /\ solver.pc = "solved"
  /\ solver.challenge[1].ID \in DOMAIN challenges
  /\ \E row \in { challenges[solver.challenge[1].ID] } :
       IF IDKeyPanics(row)
       THEN solver' = [solver EXCEPT !.pc = "verified", !.accepted = FALSE,
                                     !.err = "panic"]
       ELSE \E ver \in { verifySolution(cfg, row, Itoa(solver.nonce),
                                        solver.hash) } :
              solver' = [solver EXCEPT !.pc = "verified",
                                       !.accepted = ver.valid,
                                       !.err = ver.err]
  /\ UNCHANGED << cfg, now, challenges, solutions, call, sweep, requests,
                  generated, probe >>

NextSolve ==
  \/ GetChallengeFromService
  \/ SolveStep
  \/ VerifySolved

SpecSolve == InitSolve /\ [][NextSolve]_vars

(***************************************************************************)
(* The claims.                                                             *)
(***************************************************************************)
\* the lowercase hex of the hash recomputed from a stored challenge row and
\* a nonce
RecomputedHash(ch, nonce) ==
  HexEncodeToString(IDKey(ch.Salt \o nonce, Base64Decode(ch.Salt),
                          ch.Difficulty, ch.Memory, ch.Threads, ch.KeyLen))

\* the pair (nonce, hash) is admissible for the challenge row ch
Admissible(ch, nonce, hash) ==
  RecomputedHash(ch, nonce) = hash /\ HasPrefix(hash, ch.Target)

\* the solutions a handler holds or the table stores
PendingSolutions == { call[p].solution[1] : p \in { q \in Clients : call[q].solution # <<>> } }
StoredSolutions == { solutions[s] : s \in DOMAIN solutions }

\* C1: of the concurrent valid submissions for one challenge at most one
\* performs the transition to solved: whenever MarkChallengeSolved takes
\* effect on a challenge row, that row was not solved before.
C1_OneSolvingTransition ==
  [][\A p \in Clients :
       ( /\ call[p].pc = "mark"
         /\ call'[p].pc = "done"
         /\ call'[p].err = ""
         /\ call[p].challengeID \in DOMAIN challenges )
       => ~ challenges[call[p].challengeID].Solved]_vars

\* C2: in every reachable state of the store each challenge id has at most
\* one Solution row with valid = true.
C2_AtMostOneValidSolution ==
  \A id \in ChallengeIDs :
    Cardinality({ s \in DOMAIN solutions :
                    solutions[s].ChallengeID = id /\ solutions[s].Valid }) <= 1

\* C3 as stated: a call that found the challenge solved in the store ends
\* with the already-solved error, whatever the clock says.
C3_SolvedAlwaysAlreadySolved ==
  \A p \in Clients :
    ( /\ call[p].pc = "done"
      /\ call[p].challenge # <<>>
      /\ call[p].challenge[1].Solved )
    => call[p].err = "challenge already solved"

\* C3 as amended: a call that found the challenge solved in the store
\* returns no Solution and adds no row; it fails with the expired error
\* when now > ExpiresAt and with the already-solved error otherwise,
\* whatever nonce and hash it carries.
C3_SolvedIsRejected ==
  [][\A p \in Clients :
       ( /\ call[p].pc = "check"
         /\ call[p].challenge # <<>>
         /\ call[p].challenge[1].Solved
         /\ call'[p] # call[p] )
       => /\ call'[p].pc = "done"
          /\ call'[p].solution = <<>>
          /\ call'[p].written = 0
          /\ ~ call'[p].resp.Valid
          /\ call'[p].err = IF now > call[p].challenge[1].ExpiresAt
                            THEN "challenge expired"
                            ELSE "challenge already solved"]_vars

\* C3 witness: a call with an admissible pair for a solved, unexpired
\* challenge has been rejected as already solved.
C3_Witness ==
  \E p \in Clients :
    /\ call[p].pc = "done"
    /\ call[p].challenge # <<>>
    /\ call[p].challenge[1].Solved
    /\ Admissible(call[p].challenge[1], call[p].nonce, call[p].hash)
    /\ call[p].err = "challenge already solved"

\* C4 as stated: every verify request has added exactly one Solution row
\* when it ends, whatever its outcome.
C4_EveryAttemptRecorded ==
  \A p \in Clients : call[p].pc = "done" => call[p].written = 1

\* C4 as amended: a verify request adds exactly one Solution row when its
\* fingerprint validates, the challenge is found, unexpired and unsolved,
\* the solution id is drawn and the insert succeeds (the hash valid or
\* not), and adds no row in every other outcome.
C4_RecordedOnceWhenAdmitted ==
  \A p \in Clients :
    /\ call[p].pc \in {"idle", "check", "create"} => call[p].written = 0
    /\ call[p].pc = "mark" => call[p].written = 1
    /\ call[p].pc = "done" =>
         call[p].written =
           IF call[p].resp.Message \in
                { "Captcha solved successfully", "Invalid solution",
                  "Verification failed: failed to mark challenge as solved" }
           THEN 1 ELSE 0

\* C4 witness: a request with an invalid hash has ended and its one row is
\* in the table.
C4_Witness ==
  \E p \in Clients :
    /\ call[p].pc = "done"
    /\ call[p].resp.Message = "Invalid solution"
    /\ call[p].written = 1
    /\ call[p].solution[1] \in StoredSolutions

\* C5: the fingerprint of every Solution row written by a verify request
\* is the ciphertext token the client submitted.
C5_CiphertextStored ==
  \A p \in Clients :
    ( /\ call[p].written = 1
      /\ call[p].solution[1] \in StoredSolutions )
    => call[p].solution[1].Fingerprint = call[p].token

\* C6 as stated: a call whose expiry test runs at now = ExpiresAt fails
\* with the expired error.
C6_ExpiredAtBoundary ==
  [][\A p \in Clients :
       ( /\ call[p].pc = "check"
         /\ call[p].challenge # <<>>
         /\ now = call[p].challenge[1].ExpiresAt
         /\ call'[p] # call[p] )
       => call'[p].err = "challenge expired"]_vars

\* C6 as amended: a call fails with the expired error exactly when its
\* expiry test runs at now > ExpiresAt; at now = ExpiresAt the challenge
\* is not yet expired.
C6_ExpiredOnlyAfterExpiry ==
  [][\A p \in Clients :
       ( /\ call[p].pc = "check"
         /\ call[p].challenge # <<>>
         /\ call'[p] # call[p] )
       => ( call'[p].err = "challenge expired"
            <=> now > call[p].challenge[1].ExpiresAt )]_vars

\* C6 witness: a call tested at the expiry instant of its challenge went on
\* to build its Solution.
C6_Witness ==
  \E p \in Clients :
    /\ call[p].pc = "create"
    /\ call[p].challengeID \in DOMAIN challenges
    /\ call[p].solution[1].CreatedAt = challenges[call[p].challengeID].ExpiresAt
    /\ now = call[p].solution[1].CreatedAt

\* C7: the rejections come in the order existence, expiry, solved: no row
\* gives not-found, a row with now > ExpiresAt gives expired also when it
\* is solved, an unexpired solved row gives already-solved, and none of
\* the three returns a Solution.
C7_RejectionOrder ==
  [][\A p \in Clients :
       ( call[p].pc = "check" /\ call'[p] # call[p] )
       => LET found == call[p].challenge
          IN  /\ found = <<>> =>
                   call'[p].err = "challenge not found"
              /\ (found # <<>> /\ now > found[1].ExpiresAt) =>
                   call'[p].err = "challenge expired"
              /\ (found # <<>> /\ ~ (now > found[1].ExpiresAt) /\ found[1].Solved) =>
                   call'[p].err = "challenge already solved"
              /\ call'[p].err \in { "challenge not found", "challenge expired",
                                    "challenge already solved" } =>
                   /\ call'[p].pc = "done"
                   /\ call'[p].solution = <<>>
                   /\ ~ call'[p].resp.Valid]_vars

\* C7 witness: a call for a challenge that is solved and expired has ended
\* with the expired error.
C7_Witness ==
  \E p \in Clients :
    /\ call[p].pc = "done"
    /\ call[p].challenge # <<>>
    /\ call[p].challenge[1].Solved
    /\ call[p].err = "challenge expired"

\* C8: every Solution built or stored for a challenge has valid = true
\* exactly when the recomputed hash in lowercase hex equals the submitted
\* hash and starts with the target prefix of the challenge.
C8_AdmissionPredicate ==
  \A s \in PendingSolutions \cup StoredSolutions :
    s.ChallengeID \in DOMAIN challenges =>
      LET ch == challenges[s.ChallengeID]
      IN  s.Valid <=> ( RecomputedHash(ch, s.Nonce) = s.Hash
                        /\ HasPrefix(RecomputedHash(ch, s.Nonce), ch.Target) )

\* C8 witness: the table holds, for one challenge, a valid row and a row
\* that is invalid although its hash equals the recomputed hash.
C8_Witness ==
  \E s1 \in StoredSolutions, s2 \in StoredSolutions :
    /\ s1.ChallengeID = s2.ChallengeID
    /\ s1.ChallengeID \in DOMAIN challenges
    /\ s1.Valid
    /\ ~ s2.Valid
    /\ RecomputedHash(challenges[s2.ChallengeID], s2.Nonce) = s2.Hash

\* C9: the validity of a submission depends on the stored challenge only:
\* two Solutions for one challenge with the same nonce and hash have the
\* same validity, under whatever configurations they were verified.
C9_ConfigIndependent ==
  \A s1 \in PendingSolutions \cup StoredSolutions,
     s2 \in PendingSolutions \cup StoredSolutions :
    ( /\ s1.ChallengeID = s2.ChallengeID
      /\ s1.Nonce = s2.Nonce
      /\ s1.Hash = s2.Hash )
    => s1.Valid = s2.Valid

\* C9 witness: a valid Solution has been built under a configuration whose
\* time cost and expiry window differ from those of its challenge.
C9_Witness ==
  \E p \in Clients :
    /\ call[p].pc = "create"
    /\ call[p].solution[1].Valid
    /\ call[p].challengeID \in DOMAIN challenges
    /\ challenges[call[p].challengeID].Difficulty # cfg.Argon2Time
    /\ challenges[call[p].challengeID].Threads # cfg.Argon2Threads

\* C10: a call that returns a valid Solution without error leaves the
\* challenge solved in the store on return.
C10_ValidLeavesSolved ==
  \A p \in Clients :
    ( /\ call[p].pc = "done"
      /\ call[p].err = ""
      /\ call[p].solution # <<>>
      /\ call[p].solution[1].Valid )
    => /\ call[p].challengeID \in DOMAIN challenges
       /\ challenges[call[p].challengeID].Solved

\* C11: a Challenge record is mutated at most once: every step that changes
\* a stored row is the MarkChallengeSolved of a call whose Solution is
\* valid, and the row was not solved before the step.
C11_MutatedAtMostOnce ==
  [][\A id \in (DOMAIN challenges) \cap (DOMAIN challenges') :
       challenges'[id] # challenges[id]
       => /\ ~ challenges[id].Solved
          /\ \E p \in Clients :
               /\ call[p].pc = "mark"
               /\ call'[p].pc = "done"
               /\ call[p].challengeID = id
               /\ call[p].solution[1].Valid]_vars

\* C12: every stored Challenge has its solved timestamp present exactly
\* when its solved flag is true, and a present solved timestamp is not
\* earlier than the creation timestamp.
C12_SolvedAtIffSolved ==
  \A id \in DOMAIN challenges :
    /\ challenges[id].SolvedAt # <<>> <=> challenges[id].Solved
    /\ challenges[id].SolvedAt # <<>>
         => challenges[id].SolvedAt[1] >= challenges[id].CreatedAt

\* C12 witness: a stored Challenge is solved and its solved timestamp is
\* later than its creation timestamp.
C12_Witness ==
  \E id \in DOMAIN challenges :
    /\ challenges[id].Solved
    /\ challenges[id].SolvedAt # <<>>
    /\ challenges[id].SolvedAt[1] > challenges[id].CreatedAt

\* C13: every Challenge GenerateChallenge produced has its expiry later
\* than its creation, under every configuration Load returns.
C13_ExpiryAfterCreation ==
  \A id \in DOMAIN challenges :
    challenges[id].ExpiresAt > challenges[id].CreatedAt

\* C14: every Challenge GenerateChallenge produced has time cost, memory
\* cost, parallelism and output length all positive, under every
\* configuration Load returns.
C14_PositiveCostParameters ==
  \A id \in DOMAIN challenges :
    /\ challenges[id].Difficulty > 0
    /\ challenges[id].Memory > 0
    /\ challenges[id].Threads > 0
    /\ challenges[id].KeyLen > 0

\* C15: in every reachable store, for every draw of salt and id, a
\* GenerateChallenge call that succeeds adds exactly one Challenge, which
\* is unsolved, has no solved timestamp, carries the configured cost
\* parameters and target prefix and an id no stored Challenge has, and
\* leaves every other Challenge as it was; a call that fails returns an
\* error and leaves the table as it was.  No call touches the Solutions.
C15_GenerateAddsOneRecord ==
  /\ \A salt \in Salts(cfg.Argon2SaltLength),
        b \in 1..MaxConfigChallengeIDs,
        randOk \in BOOLEAN, dbOk \in BOOLEAN :
       LET r == GenerateChallengeResult(cfg, challenges, << b >>, salt, now,
                                        randOk, dbOk)
       IN  IF r.err = ""
           THEN LET ch == r.challenge[1]
                IN  /\ ch.ID \notin DOMAIN challenges
                    /\ DOMAIN r.rows = DOMAIN challenges \cup { ch.ID }
                    /\ r.rows[ch.ID] = ch
                    /\ ~ ch.Solved
                    /\ ch.SolvedAt = <<>>
                    /\ ch.Difficulty = cfg.Argon2Time
                    /\ ch.Memory = cfg.Argon2Memory
                    /\ ch.Threads = cfg.Argon2Threads
                    /\ ch.KeyLen = cfg.Argon2KeyLength
                    /\ ch.Target = cfg.Argon2TargetPrefix
                    /\ \A id \in DOMAIN challenges : r.rows[id] = challenges[id]
           ELSE /\ r.challenge = <<>>
                /\ r.rows = challenges
  /\ solutions = << >>

\* C15 witness: a second Challenge has been added, at a later time, beside
\* a stored one that is still in the table.
C15_Witness ==
  /\ generated = 2
  /\ \E a \in DOMAIN challenges, b \in DOMAIN challenges :
       challenges[a].CreatedAt < challenges[b].CreatedAt

\* the probe went from the browser to the validator under the key of the
\* service, unchanged on its way
SentIntact ==
  probe.pc = "validated" /\ probe.key = "server" /\ probe.tamper = "none"

\* every string field of the record is UTF-8 text
IsText(fp) ==
  /\ ValidString(fp.UserAgent)
  /\ ValidString(fp.Language)
  /\ ValidString(fp.Platform)
  /\ ValidString(fp.Timezone)
  /\ ValidString(fp.DoNotTrack)
  /\ ValidString(fp.ScreenResolution)
  /\ ValidString(fp.AvailableScreenResolution)

C17_BadTokenFailsAlike ==
  probe.pc = "validated" =>
    /\ (probe.key = "other" \/ probe.tamper # "none") => probe.err # ""
    /\ probe.err # "" =>
         probe.resp = << [Valid |-> FALSE,
                          Message |-> "Fingerprint validation failed"] >>

\* per field, in the order user agent, language, platform, core count, touch
\* points, color depth, pixel ratio, timezone, do-not-track, screen
\* resolution, available screen resolution: the name the error of the field
\* carries and what the rule of the field says about the record
FieldErrors(fp) ==
  << << "invalid user agent", validateUserAgent(fp.UserAgent) >>,
     << "invalid language", validateLanguage(fp.Language) >>,
     << "invalid platform", validatePlatform(fp.Platform) >>,
     << "invalid hardware concurrency",
        validateHardwareConcurrency(fp.HardwareConcurrency) >>,
     << "invalid max touch points", validateMaxTouchPoints(fp.MaxTouchPoints) >>,
     << "invalid color depth", validateColorDepth(fp.ColorDepth) >>,
     << "invalid pixel ratio", validatePixelRatio(fp.PixelRatio) >>,
     << "invalid timezone", validateTimezone(fp.Timezone) >>,
     << "invalid do not track", validateDoNotTrack(fp.DoNotTrack) >>,
     << "invalid screen resolution",
        validateScreenResolution(fp.ScreenResolution) >>,
     << "invalid available screen resolution",
        validateScreenResolution(fp.AvailableScreenResolution) >> >>

\* the positions of the fields of the record that violate their rule
Violations(fp) ==
  { k \in 1..Len(FieldErrors(fp)) : FieldErrors(fp)[k][2] # "" }

\* C18: validateFingerprintFields returns ok exactly when no field violates
\* its rule; otherwise its error names the first violating field in the
\* fixed order, and only that one, however many fields violate.
C18_FirstViolationNamed ==
  probe.pc = "fields" =>
    LET bad == Violations(probe.fp)
    IN  /\ probe.err = "" <=> bad = {}
        /\ bad # {} =>
             LET k == CHOOSE k1 \in bad : \A k2 \in bad : k1 <= k2
             IN  probe.err = Wrap(FieldErrors(probe.fp)[k][1],
                                  FieldErrors(probe.fp)[k][2])

\* a record whose core count, touch points and screen resolution all
\* violate their rules was refused for its core count
C18_Witness ==
  /\ probe.pc = "fields"
  /\ {4, 5, 10} \subseteq Violations(probe.fp)
  /\ \A k \in 1..3 : k \notin Violations(probe.fp)
  /\ probe.err = "invalid hardware concurrency: hardware concurrency out of range"

\* no field of the record other than the core count violates its rule
OtherFieldsValid(fp) == Violations(fp) \subseteq { 4 }

\* C19: with all other fields valid, validation accepts a record exactly
\* when its core count is in 1..128, on the record itself and on the token
\* a browser made of it; a core count outside the range (0, a negative
\* number, 129, 256) fails with the error of the hardware concurrency field.
C19_CoreCountRule ==
  LET cores == probe.fp.HardwareConcurrency
      named == "invalid hardware concurrency: hardware concurrency out of range"
  IN  /\ (probe.pc = "fields" /\ OtherFieldsValid(probe.fp)) =>
           /\ probe.err = "" <=> cores \in 1..128
           /\ cores \notin 1..128 => probe.err = named
      /\ (SentIntact /\ OtherFieldsValid(probe.fp) /\ IsText(probe.fp)) =>
           /\ probe.err = "" <=> cores \in 1..128
           /\ cores \notin 1..128 =>
                probe.err = Wrap("fingerprint validation failed", named)

\* the token of a browser that reports 256 cores, otherwise valid, was
\* refused for its core count
C19_Witness ==
  /\ SentIntact
  /\ probe.fp.HardwareConcurrency = 256
  /\ OtherFieldsValid(probe.fp)
  /\ probe.err = "fingerprint validation failed: invalid hardware concurrency: hardware concurrency out of range"

\* the positions of the character x in a text
XPositions(r) == { k \in 1..Len(r) : r[k] = 120 }

\* the text is an integer in 100..10000, written as strconv.Atoi reads it
IsDimension(text) ==
  AtoiOk(text) /\ AtoiValue(text) >= 100 /\ AtoiValue(text) <= 10000

\* the text has the form <width>x<height> with both dimensions integers in
\* 100..10000
IsResolution(r) ==
  \E k \in XPositions(r) :
    /\ XPositions(r) = { k }
    /\ IsDimension(SubSeq(r, 1, k - 1))
    /\ IsDimension(SubSeq(r, k + 1, Len(r)))

\* the text has one x and a part that is no integer
HasLetterPart(r) ==
  \E k \in XPositions(r) :
    /\ XPositions(r) = { k }
    /\ ~ AtoiOk(SubSeq(r, 1, k - 1)) \/ ~ AtoiOk(SubSeq(r, k + 1, Len(r)))

\* what the resolution rule says about a text: "" for a resolution, else
\* the empty error, the format error when the text has not exactly one x,
\* the width error when the part before the x is no integer in range, the
\* height error otherwise
ResolutionError(r) ==
  IF r = <<>> THEN "screen resolution cannot be empty"
  ELSE IF Cardinality(XPositions(r)) # 1 THEN "screen resolution format invalid"
  ELSE LET k == CHOOSE k \in XPositions(r) : TRUE
       IN  IF ~ IsDimension(SubSeq(r, 1, k - 1))
           THEN "screen width out of range"
           ELSE IF ~ IsDimension(SubSeq(r, k + 1, Len(r)))
           THEN "screen height out of range"
           ELSE ""

\* C20, as stated: a resolution text is accepted exactly when it has the
\* form <width>x<height> with both dimensions integers in 100..10000, a
\* text such as abcxdef whose parts are no integers is refused as a format
\* failure, and the same holds for the screen resolution and the available
\* screen resolution.
C20_LettersAreFormatFailure ==
  probe.pc = "fields" =>
    LET sr == probe.fp.ScreenResolution
        ar == probe.fp.AvailableScreenResolution
        v  == Violations(probe.fp)
    IN  /\ (v \cap (1..9) = {}) =>
             /\ probe.err = "" => IsResolution(sr)
             /\ (10 \notin v) <=> IsResolution(sr)
             /\ HasLetterPart(sr) =>
                  probe.err = "invalid screen resolution: screen resolution format invalid"
        /\ (v \cap (1..10) = {}) =>
             /\ probe.err = "" <=> IsResolution(ar)
             /\ HasLetterPart(ar) =>
                  probe.err = "invalid available screen resolution: screen resolution format invalid"

\* C20, amended: the acceptance is as stated, for both fields; a refused
\* text is reported as empty when it is empty, as a format failure when it
\* has not exactly one x, and else as a width or a height out of range, the
\* latter also when the part is no integer, as in abcxdef.
C20_LettersAreOutOfRange ==
  probe.pc = "fields" =>
    LET sr == probe.fp.ScreenResolution
        ar == probe.fp.AvailableScreenResolution
        v  == Violations(probe.fp)
    IN  /\ (v \cap (1..9) = {}) =>
             /\ probe.err = "" => IsResolution(sr)
             /\ (10 \notin v) <=> IsResolution(sr)
             /\ ~ IsResolution(sr) =>
                  probe.err = Wrap("invalid screen resolution",
                                   ResolutionError(sr))
        /\ (v \cap (1..10) = {}) =>
             /\ probe.err = "" <=> IsResolution(ar)
             /\ ~ IsResolution(ar) =>
                  probe.err = Wrap("invalid available screen resolution",
                                   ResolutionError(ar))

\* the record whose screen resolution is abcxdef was refused for a width
\* out of range
C20_Witness ==
  /\ probe.pc = "fields"
  /\ probe.fp.ScreenResolution = << 97, 98, 99, 120, 100, 101, 102 >>
  /\ HasLetterPart(probe.fp.ScreenResolution)
  /\ Violations(probe.fp) = { 10 }
  /\ probe.err = "invalid screen resolution: screen width out of range"

\* an optional minus sign and then decimal digits, at least one
IsNumeric(z) ==
  LET d == IF Len(z) > 0 /\ z[1] = 45 THEN Tail(z) ELSE z
  IN  Len(d) > 0 /\ \A i \in 1..Len(d) : IsDigit(d[i])

\* the numeric text z denotes the integer n: after its sign and any zero
\* padding it reads as the decimal digits of the magnitude of n
Denotes(z, n) ==
  LET neg == z[1] = 45
      d == IF neg THEN Tail(z) ELSE z
  IN  /\ (neg => n <= 0) /\ (~ neg => n >= 0)
      /\ \E k \in 0..(Len(d) - 1) :
           /\ \A i \in 1..k : d[i] = 48
           /\ SubSeq(d, k + 1, Len(d)) = ItoaNat(IF n < 0 THEN 0 - n ELSE n)

\* a numeric text whose integer value lies in [-840,720]
InTimezoneRange(z) == IsNumeric(z) /\ \E n \in (-840)..720 : Denotes(z, n)

\* no field of the record other than the timezone violates its rule
OtherThanTimezoneValid(fp) == Violations(fp) \subseteq { 8 }

\* C21, as stated: with all other fields valid, validation accepts a record
\* exactly when its timezone is a numeric text whose integer value lies in
\* [-840,720], whatever the length or zero padding of the text.
C21_TimezoneRule ==
  /\ (probe.pc = "fields" /\ OtherThanTimezoneValid(probe.fp)) =>
       (probe.err = "" <=> InTimezoneRange(probe.fp.Timezone))
  /\ (SentIntact /\ OtherThanTimezoneValid(probe.fp) /\ IsText(probe.fp)) =>
       (probe.err = "" <=> InTimezoneRange(probe.fp.Timezone))

\* C21, amended: with all other fields valid, validation accepts a record
\* exactly when its timezone is a numeric text of at most 10 characters
\* whose integer value lies in [-840,720], zero padded or not; -841 and 721
\* fail as out of range, and a longer text fails for its length whatever
\* its value.
C21_TimezoneRuleWithinLength ==
  LET z == probe.fp.Timezone
      accepted == Len(z) <= 10 /\ InTimezoneRange(z)
      range == "invalid timezone: timezone offset out of valid range"
      length == "invalid timezone: timezone length out of range"
  IN  /\ (probe.pc = "fields" /\ OtherThanTimezoneValid(probe.fp)) =>
           /\ probe.err = "" <=> accepted
           /\ z \in { <<45, 56, 52, 49>>, <<55, 50, 49>> } => probe.err = range
           /\ Len(z) > 10 => probe.err = length
      /\ (SentIntact /\ OtherThanTimezoneValid(probe.fp) /\ IsText(probe.fp)) =>
           /\ probe.err = "" <=> accepted
           /\ z \in { <<45, 56, 52, 49>>, <<55, 50, 49>> } =>
                probe.err = Wrap("fingerprint validation failed", range)
           /\ Len(z) > 10 =>
                probe.err = Wrap("fingerprint validation failed", length)

\* the token of a browser whose timezone is 00000000120, eleven characters
\* that denote 120, was refused for the length of the timezone
C21_Witness ==
  /\ SentIntact
  /\ probe.fp.Timezone = <<48, 48, 48, 48, 48, 48, 48, 48, 49, 50, 48>>
  /\ OtherThanTimezoneValid(probe.fp)
  /\ probe.err = "fingerprint validation failed: invalid timezone: timezone length out of range"

\* a call that found its challenge and holds it unexpired still has the
\* row in the table; a call past the checks whose row is gone built its
\* Solution at an earlier time
InFlightKept ==
  \A p \in Clients :
    /\ ( /\ call[p].pc = "check"
         /\ call[p].challenge # <<>>
         /\ ~ Expired(now, call[p].challenge[1]) )
         => call[p].challengeID \in DOMAIN challenges
    /\ ( /\ call[p].pc \in { "create", "mark" }
         /\ call[p].challengeID \notin DOMAIN challenges )
         => call[p].solution[1].CreatedAt < now

\* C22: every row that leaves the challenges table, under any interleaving
\* of the sweep with GenerateChallenge and VerifySolution, has its expiry in
\* the past and is unsolved at that step; so no call of VerifySolution
\* loses the row of a challenge that has not yet expired.
C22_SweepTakesOnlyExpiredUnsolved ==
  [][ /\ \A id \in DOMAIN challenges \ DOMAIN challenges' :
           /\ challenges[id].ExpiresAt < now
           /\ ~ challenges[id].Solved
      /\ InFlightKept' ]_vars

\* the sweep has just deleted the one challenge issued, expired by now,
\* while a call of VerifySolution that had passed the checks on it was
\* about to store its Solution
C22_Witness ==
  /\ sweep = "solutions"
  /\ generated = 1
  /\ DOMAIN challenges = {}
  /\ \E p \in Clients : call[p].pc = "create"

\* C23: a run of the sweep in which the DELETE of CleanupExpiredChallenges
\* does on the table what the statement does leaves no challenge that was
\* expired and unsolved at that moment, whether or not Solution records
\* reference it.
C23_SweepTakesAllExpiredUnsolved ==
  [][ ( /\ sweep = "idle"
        /\ sweep' = "solutions"
        /\ challenges' =
             CleanupExpiredChallenges(challenges, solutions, now).rows )
      => ExpiredUnsolved(challenges, now) \cap DOMAIN challenges' = {} ]_vars

\* the call of handler p was answered for its fingerprint token
TokenRefused(c) == c.pc = "done" /\ c.resp = FingerprintResponse

\* C24: a verify request whose token ValidateFingerprint refuses changes
\* nothing in the store: the step that answers it leaves both tables as
\* they were, the call has written no Solution and holds none, and the
\* step that ends it leaves the tables alone as well; this whatever the
\* nonce and hash of the request, admissible or not.
C24_RefusedTokenLeavesStore ==
  [][ \A p \in Clients :
        /\ (call[p].pc = "idle" /\ TokenRefused(call'[p])) =>
             /\ challenges' = challenges
             /\ solutions' = solutions
             /\ call'[p].written = 0
             /\ call'[p].solution = <<>>
             /\ FingerprintVerdict[call'[p].token].err # ""
        /\ (TokenRefused(call[p]) /\ call'[p] # call[p]) =>
             /\ call'[p] = IdleCall
             /\ challenges' = challenges
             /\ solutions' = solutions
        /\ (call[p].pc = "idle" /\ call'[p].pc # "idle"
              /\ FingerprintVerdict[call'[p].token].err # "") =>
             TokenRefused(call'[p]) ]_vars

\* a request with an admissible nonce and hash for a challenge in the
\* table, unexpired, was refused for its token: the challenge is unsolved
\* and no Solution is stored
C24_Witness ==
  \E p \in Clients :
    /\ TokenRefused(call[p])
    /\ call[p].challengeID \in DOMAIN challenges
    /\ Admissible(challenges[call[p].challengeID], call[p].nonce, call[p].hash)
    /\ ~ Expired(now, challenges[call[p].challengeID])
    /\ ~ challenges[call[p].challengeID].Solved
    /\ DOMAIN solutions = {}

\* no handler is inside VerifySolution
NoVerifyInProgress == \A p \in Clients : call[p].pc \in { "idle", "done" }

\* C25: whenever no call of VerifySolution is in progress, every Solution
\* row with valid = true references a challenge whose solved flag is true,
\* also after a call in which CreateSolution succeeded and
\* MarkChallengeSolved failed.
C25_ValidSolutionOnlyOfSolved ==
  NoVerifyInProgress =>
    \A s \in DOMAIN solutions :
      solutions[s].Valid =>
        /\ solutions[s].ChallengeID \in DOMAIN challenges
        /\ challenges[solutions[s].ChallengeID].Solved

\* C26: under any interleaving of GenerateChallenge, VerifySolution and the
\* two cleanups, every Solution row references a challenge that is in the
\* table; the CreateSolution of a call whose challenge was deleted after
\* the lookup fails and stores nothing.
C26_SolutionsReferenceChallenges ==
  [][ /\ \A s \in DOMAIN solutions' :
           solutions'[s].ChallengeID \in DOMAIN challenges'
      /\ \A p \in Clients :
           ( /\ call[p].pc = "create"
             /\ call[p].challengeID \notin DOMAIN challenges
             /\ call'[p] # call[p] )
           => /\ call'[p].pc = "done"
              /\ call'[p].err = "failed to store solution"
              /\ solutions' = solutions ]_vars

\* a call found its challenge and passed the checks, the sweep deleted the
\* expired challenge, and the CreateSolution of the call failed: the table
\* holds no Solution
C26_Witness ==
  \E p \in Clients :
    /\ call[p].pc = "done"
    /\ call[p].err = "failed to store solution"
    /\ call[p].solution # <<>>
    /\ call[p].challengeID \notin DOMAIN challenges
    /\ generated = 1
    /\ DOMAIN solutions = {}

\* the hash of the challenge ch and the nonce n, a number, with the cost
\* parameters of ch
HashOf(ch, n) == RecomputedHash(ch, Itoa(n))

\* C27: for every challenge issued, the nonce and hash solveChallenge
\* returns are the first nonce whose hash with the parameters of the
\* challenge has the target prefix, and that hash; and verifySolution of the
\* service accepts the pair for the same challenge.
C27_ClientServerAgree ==
  /\ solver.pc \in { "solved", "verified" } =>
       /\ solver.hash = HashOf(solver.challenge[1], solver.nonce)
       /\ HasPrefix(solver.hash, solver.challenge[1].Target)
       /\ \A n \in 0..(solver.nonce - 1) :
            ~ HasPrefix(HashOf(solver.challenge[1], n), solver.challenge[1].Target)
  /\ solver.pc = "verified" => solver.accepted

====
